---------------------------- MODULE Spec2Model ----------------------------
(***************************************************************************)
(* A model of vexor's sharded in-memory vector store (pkg/store) and of    *)
(* the distance kernel it calls (pkg/distance).                            *)
(*                                                                         *)
(* float32 values are modelled as fixed-point numbers: the integer n       *)
(* stands for n / Scale.  Sums and differences are exact; products,        *)
(* quotients and square roots are rounded to the nearest representable     *)
(* value, as float32 rounds them.  Small integers are exact in both.       *)
(*                                                                         *)
(* Identifiers are byte strings, modelled as sequences of bytes so that    *)
(* the FNV-1a hash can be computed over them as hash/fnv does.             *)
(* Go slices are 0-based: row i of a shard is ids[i+1] here.               *)
(*                                                                         *)
(* Spec, SpecRecorded and SpecDeleted have one caller, whose calls run one *)
(* after the other, each as one step; they differ in the history they      *)
(* keep.  SpecConcurrent has goroutines whose calls run statement by       *)
(* statement under the shards' locks.                                      *)
(***************************************************************************)
EXTENDS Integers, Sequences, FiniteSets, TLC

VARIABLES
    dimension,  \* VectorStore.dimension
    shards,     \* VectorStore.shards: [0..numShards-1 -> shard]
    op,         \* the call that has just returned, with its arguments and results
    stored,     \* history: identifier -> the payload last inserted, until deleted
    hist,       \* history: the last call that changed the store, and the one before
    deleted,    \* history: the identifiers deleted and not inserted again since
    calls,      \* the goroutines that call the store concurrently: where each is
    mu,         \* shard.mu of every shard: its writer and its number of readers
    search,     \* the Search or SearchCosine that runs beside the goroutines
    batch,      \* history: the calls started since the goroutines were last all idle
    queries,    \* the Searches that run beside each other
    watch       \* history: the populations of the store since a call started

vars == <<dimension, shards, op, stored, hist, deleted, calls, mu, search, batch,
          queries, watch>>

---------------------------------------------------------------------------
(* Bounds of the model *)

\* number of fractional bits of the fixed-point model of float32
FracBits == 10

\* largest k passed to Search / SearchCosine
MaxK == 3

\* largest value of GOMAXPROCS
MaxProcs == 17

---------------------------------------------------------------------------
(* float32 arithmetic *)

Scale == 2 ^ FracBits

\* float32(n) for a small integer n
F(n) == n * Scale

\* n / d rounded to the nearest integer (d > 0)
RoundDiv(n, d) ==
    IF n >= 0 THEN (2 * n + d) \div (2 * d)
    ELSE -((2 * (-n) + d) \div (2 * d))

\* the float32 values that are not numbers of the fixed-point model: the
\* infinities and NaN
PosInf == 2 ^ 30

NegInf == -PosInf

NaN == PosInf + 1

IsInf(x) == x = PosInf \/ x = NegInf

\* the sign of a float32 that is not NaN
Sign(x) == IF x > 0 THEN 1 ELSE IF x < 0 THEN -1 ELSE 0

\* a + b: NaN with a NaN operand and for infinities of opposite signs
FAdd(a, b) ==
    IF a = NaN \/ b = NaN THEN NaN
    ELSE IF IsInf(a) THEN (IF b = -a THEN NaN ELSE a)
    ELSE IF IsInf(b) THEN b
    ELSE a + b

\* a - b: NaN with a NaN operand and for infinities of the same sign
FSub(a, b) ==
    IF a = NaN \/ b = NaN THEN NaN
    ELSE IF IsInf(a) THEN (IF b = a THEN NaN ELSE a)
    ELSE IF IsInf(b) THEN -b
    ELSE a - b

\* a * b: NaN with a NaN operand and for an infinity by zero
FMul(a, b) ==
    IF a = NaN \/ b = NaN THEN NaN
    ELSE IF IsInf(a) \/ IsInf(b)
    THEN (IF a = 0 \/ b = 0 THEN NaN
          ELSE IF Sign(a) = Sign(b) THEN PosInf ELSE NegInf)
    ELSE RoundDiv(a * b, Scale)

\* the fused multiply-add acc + a * b, rounded once
FMla(acc, a, b) ==
    IF acc = NaN \/ IsInf(acc) \/ a = NaN \/ b = NaN \/ IsInf(a) \/ IsInf(b)
    THEN FAdd(acc, FMul(a, b))
    ELSE RoundDiv(acc * Scale + a * b, Scale)

FDiv(a, b) ==
    IF b > 0 THEN RoundDiv(a * Scale, b) ELSE RoundDiv((-a) * Scale, -b)

\* the largest r in lo..hi with r * r <= n
RECURSIVE IsqrtBetween(_, _, _)
IsqrtBetween(n, lo, hi) ==
    IF lo >= hi THEN lo
    ELSE LET mid == (lo + hi + 1) \div 2
         IN  IF mid * mid <= n THEN IsqrtBetween(n, mid, hi)
             ELSE IsqrtBetween(n, lo, mid - 1)

\* the root of n, rounded to the nearest integer
RoundSqrt(n) ==
    LET r == IsqrtBetween(n, 0, 32768)
    IN  IF n - r * r > r THEN r + 1 ELSE r

\* math.Sqrt on a float32, converted back to float32
FSqrt(x) == CHOOSE root \in {RoundSqrt(n) : n \in {x * Scale}} : TRUE

sqrt32(x) == FSqrt(x)

---------------------------------------------------------------------------
(* pkg/distance: the scalar kernels and the functions built on them *)

RECURSIVE EuclideanDistanceSquaredScalarFrom(_, _, _, _)
EuclideanDistanceSquaredScalarFrom(a, b, i, sum) ==
    IF i >= Len(a) THEN sum
    ELSE LET diff == FSub(a[i + 1], b[i + 1])
         IN  EuclideanDistanceSquaredScalarFrom(a, b, i + 1, FAdd(sum, FMul(diff, diff)))

EuclideanDistanceSquaredScalar(a, b) ==
    EuclideanDistanceSquaredScalarFrom(a, b, 0, 0)

RECURSIVE DotProductScalarFrom(_, _, _, _)
DotProductScalarFrom(a, b, i, sum) ==
    IF i >= Len(a) THEN sum
    ELSE DotProductScalarFrom(a, b, i + 1, FAdd(sum, FMul(a[i + 1], b[i + 1])))

DotProductScalar(a, b) == DotProductScalarFrom(a, b, 0, 0)

\* the arm64 build: a register of four float32 lanes, and the lane-wise
\* instructions of the NEON kernels
Lanes == 1 .. 4

ZeroLanes == [l \in Lanes |-> 0]

\* the load without the post-increment: the first four floats every time
Load4NoIncrement(v, i) == [l \in Lanes |-> v[l]]

\* VLD1: the four floats from element i on
Load4(v, i) == [l \in Lanes |-> v[i + l]]

\* fsub, fadd and fmla on four lanes
VSub(x, y) == [l \in Lanes |-> FSub(x[l], y[l])]

VAdd(x, y) == [l \in Lanes |-> FAdd(x[l], y[l])]

VFmla(acc, x, y) == [l \in Lanes |-> FMla(acc[l], x[l], y[l])]

\* the registers as the kernel starts: the elements done, the elements
\* left, and the accumulators V0..V3
NeonStart(a) == [i |-> 0, r1 |-> Len(a), acc |-> [j \in 0 .. 3 |-> ZeroLanes]]

\* euc_loop16: 16 floats per iteration into the four accumulators
RECURSIVE eucLoop16(_, _, _)
eucLoop16(a, b, st) ==
    IF st.r1 < 16 THEN st
    ELSE eucLoop16(a, b,
             [i |-> st.i + 16, r1 |-> st.r1 - 16,
              acc |-> [j \in 0 .. 3 |->
                          LET diff == VSub(Load4(a, st.i + 4 * j), Load4(b, st.i + 4 * j))
                          IN  VFmla(st.acc[j], diff, diff)]])

\* euc_loop4: 4 floats per iteration into V0
RECURSIVE eucLoop4(_, _, _)
eucLoop4(a, b, st) ==
    IF st.r1 < 4 THEN st
    ELSE eucLoop4(a, b,
             [i |-> st.i + 4, r1 |-> st.r1 - 4,
              acc |-> [st.acc EXCEPT ![0] =
                          LET diff == VSub(Load4(a, st.i), Load4(b, st.i))
                          IN  VFmla(@, diff, diff)]])

\* the reduce: V0 + V1, V2 + V3, their sum, and the two pairwise adds
NeonReduce(acc) ==
    LET v0 == VAdd(acc[0], acc[1])
        v2 == VAdd(acc[2], acc[3])
        v  == VAdd(v0, v2)
    IN  FAdd(FAdd(v[1], v[2]), FAdd(v[3], v[4]))

\* one element of the tail with the sum of the two floats for their difference
eucScalarSum(x, y, f0) ==
    LET f4 == FAdd(x, y)
    IN  FAdd(FMul(f4, f4), f0)

\* euc_scalar: one element of the tail, FSUBS, FMULS, FADDS
eucScalar(x, y, f0) ==
    LET f4 == FSub(x, y)
    IN  FAdd(FMul(f4, f4), f0)

\* the scalar tail: the remaining 0 to 3 elements
RECURSIVE eucTail(_, _, _, _, _)
eucTail(a, b, i, r1, f0) ==
    IF r1 = 0 THEN f0
    ELSE eucTail(a, b, i + 1, r1 - 1, eucScalar(a[i + 1], b[i + 1], f0))

euclideanDistanceSquaredNEON(a, b) ==
    LET st == eucLoop4(a, b, eucLoop16(a, b, NeonStart(a)))
    IN  eucTail(a, b, st.i, st.r1, NeonReduce(st.acc))

\* dot_loop16
RECURSIVE dotLoop16(_, _, _)
dotLoop16(a, b, st) ==
    IF st.r1 < 16 THEN st
    ELSE dotLoop16(a, b,
             [i |-> st.i + 16, r1 |-> st.r1 - 16,
              acc |-> [j \in 0 .. 3 |->
                          VFmla(st.acc[j], Load4(a, st.i + 4 * j), Load4(b, st.i + 4 * j))]])

\* dot_loop4
RECURSIVE dotLoop4(_, _, _)
dotLoop4(a, b, st) ==
    IF st.r1 < 4 THEN st
    ELSE dotLoop4(a, b,
             [i |-> st.i + 4, r1 |-> st.r1 - 4,
              acc |-> [st.acc EXCEPT ![0] = VFmla(@, Load4(a, st.i), Load4(b, st.i))]])

\* dot_scalar: the remaining 0 to 3 elements, FMULS, FADDS
RECURSIVE dotTail(_, _, _, _, _)
dotTail(a, b, i, r1, f0) ==
    IF r1 = 0 THEN f0
    ELSE dotTail(a, b, i + 1, r1 - 1, FAdd(FMul(a[i + 1], b[i + 1]), f0))

dotProductNEON(a, b) ==
    LET st == dotLoop4(a, b, dotLoop16(a, b, NeonStart(a)))
    IN  dotTail(a, b, st.i, st.r1, NeonReduce(st.acc))

\* the platform functions of the arm64 build
euclideanDistanceSquaredPlatformArm64(a, b) ==
    IF Len(a) >= 4 THEN euclideanDistanceSquaredNEON(a, b)
    ELSE EuclideanDistanceSquaredScalar(a, b)

dotProductPlatformArm64(a, b) ==
    IF Len(a) >= 4 THEN dotProductNEON(a, b)
    ELSE DotProductScalar(a, b)

\* the build without NEON: the platform functions are the scalar loops
euclideanDistanceSquaredPlatform(a, b) == EuclideanDistanceSquaredScalar(a, b)

dotProductPlatform(a, b) == DotProductScalar(a, b)

EuclideanDistanceSquared(a, b) == euclideanDistanceSquaredPlatform(a, b)

DotProduct(a, b) == dotProductPlatform(a, b)

Magnitude(v) == FSqrt(DotProduct(v, v))

\* a zero magnitude taken as full similarity
CosineSimilarityOneForZero(a, b) ==
    LET dot  == DotProduct(a, b)
        magA == Magnitude(a)
        magB == Magnitude(b)
    IN  IF magA = 0 \/ magB = 0 THEN F(1)
        ELSE FDiv(dot, FMul(magA, magB))

CosineSimilarity(a, b) ==
    LET dot  == DotProduct(a, b)
        magA == Magnitude(a)
        magB == Magnitude(b)
    IN  IF magA = 0 \/ magB = 0 THEN 0
        ELSE FDiv(dot, FMul(magA, magB))

CosineDistance(a, b) == F(1) - CosineSimilarity(a, b)

---------------------------------------------------------------------------
(* shardIndex: 32-bit FNV-1a of the identifier's bytes, modulo numShards.  *)
(* A 32-bit word is a pair <<high 16 bits, low 16 bits>>.                  *)

numShards == 16

RECURSIVE Xor(_, _)
Xor(x, y) ==
    IF x = 0 THEN y
    ELSE IF y = 0 THEN x
    ELSE (((x % 2) + (y % 2)) % 2) + 2 * Xor(x \div 2, y \div 2)

\* offset basis 2166136261 = 0x811C9DC5, prime 16777619 = 0x01000193
fnvOffset32 == <<33052, 40389>>

fnvPrime32 == <<256, 403>>

\* (a * b) mod 2^32
Mul32(a, b) ==
    LET low == a[2] * b[2]
    IN  << (a[1] * b[2] + a[2] * b[1] + low \div 65536) % 65536, low % 65536 >>

\* one step of fnv.New32a().Write: hash ^= byte; hash *= prime
fnvWriteByte(h, c) == Mul32(<<h[1], Xor(h[2], c)>>, fnvPrime32)

RECURSIVE fnvWriteFrom(_, _, _)
fnvWriteFrom(h, id, i) ==
    IF i >= Len(id) THEN h
    ELSE fnvWriteFrom(fnvWriteByte(h, id[i + 1]), id, i + 1)

fnv1a32(id) == fnvWriteFrom(fnvOffset32, id, 0)

\* routing by the identifier's length, not by its hash
shardIndexByLength(id) == Len(id) % numShards

\* int(h.Sum32() % numShards): numShards divides 65536, so the low half decides
shardIndex(id) == fnv1a32(id)[2] % numShards

---------------------------------------------------------------------------
(* The inputs the calls are drawn from *)

\* "a", "q", "v-1": "a" and "q" are routed to the same shard
IdA == <<97>>
IdQ == <<113>>
IdV == <<118, 45, 49>>

\* the empty identifier
EmptyID == << >>

IDs == {IdA, IdQ, IdV}

AnyID == IDs \cup {EmptyID}

Vec(xs) == [i \in DOMAIN xs |-> F(xs[i])]

Vectors ==
    { Vec(<<0, 0>>), Vec(<<1, 0>>), Vec(<<-1, 0>>), Vec(<<3, 4>>), Vec(<<2>>) }

Dims == {1, 2}

---------------------------------------------------------------------------
(* The shard and the statements of Insert and Delete *)

EmptyMap == [x \in {} |-> 0]

MapPut(m, key, val) ==
    [x \in (DOMAIN m) \cup {key} |-> IF x = key THEN val ELSE m[x]]

MapDelete(m, key) == [x \in (DOMAIN m) \ {key} |-> m[x]]

\* s[lo:hi]
Slice(s, lo, hi) == SubSeq(s, lo + 1, hi)

\* copy(dst[lo:lo+n], src): overwrites min(n, len(src)) elements
CopyInto(dst, lo, n, src) ==
    LET m == IF Len(src) < n THEN Len(src) ELSE n
    IN  [i \in DOMAIN dst |->
            IF i > lo /\ i <= lo + m THEN src[i - lo] ELSE dst[i]]

\* a shard as NewVectorStore makes it
NewShard == [ids |-> << >>, data |-> << >>, idIndex |-> EmptyMap]

\* the data is copied over the first row, whatever idx is
InsertUpdateFirstRow(sh, idx, v, dim) ==
    [sh EXCEPT !.data = CopyInto(sh.data, 0, dim, v.Data)]

\* Insert, the identifier exists at row idx: copy the data over the row
InsertUpdate(sh, idx, v, dim) ==
    [sh EXCEPT !.data = CopyInto(sh.data, idx * dim, dim, v.Data)]

\* sh.idIndex[v.ID] = len(sh.ids)
InsertIndex(sh, v) ==
    [sh EXCEPT !.idIndex = MapPut(sh.idIndex, v.ID, Len(sh.ids))]

\* the new identifier put in front of the others
InsertIdsInFront(sh, v) == [sh EXCEPT !.ids = <<v.ID>> \o sh.ids]

\* sh.ids = append(sh.ids, v.ID)
InsertIds(sh, v) == [sh EXCEPT !.ids = Append(sh.ids, v.ID)]

\* sh.data = append(sh.data, v.Data...)
InsertData(sh, v) == [sh EXCEPT !.data = sh.data \o v.Data]

\* Insert, the identifier is new: the three statements in the code's order
InsertAppend(sh, v) == InsertData(InsertIds(InsertIndex(sh, v), v), v)

\* the identifier is appended whether it exists or not
InsertLockedAlwaysAppend(sh, v, dim) == InsertAppend(sh, v)

\* the body of Insert under the shard's lock
InsertLocked(sh, v, dim) ==
    IF v.ID \in DOMAIN sh.idIndex
    THEN InsertUpdate(sh, sh.idIndex[v.ID], v, dim)
    ELSE InsertAppend(sh, v)

\* the deleted identifier stays in its row
DeleteSwapIdsSkipped(sh, idx, lastIdx) == sh

\* sh.ids[idx] = sh.ids[lastIdx]
DeleteSwapIds(sh, idx, lastIdx) ==
    [sh EXCEPT !.ids = [sh.ids EXCEPT ![idx + 1] = sh.ids[lastIdx + 1]]]

\* the moved identifier's payload is not copied
DeleteSwapDataSkipped(sh, idx, lastIdx, dim) == sh

\* copy(sh.data[idx*dim:(idx+1)*dim], sh.data[lastIdx*dim:(lastIdx+1)*dim])
DeleteSwapData(sh, idx, lastIdx, dim) ==
    [sh EXCEPT !.data = CopyInto(sh.data, idx * dim, dim,
                                 Slice(sh.data, lastIdx * dim, (lastIdx + 1) * dim))]

\* the moved identifier keeps its old index entry
DeleteSwapIndexSkipped(sh, idx) == sh

\* sh.idIndex[sh.ids[idx]] = idx
DeleteSwapIndex(sh, idx) ==
    [sh EXCEPT !.idIndex = MapPut(sh.idIndex, sh.ids[idx + 1], idx)]

\* Delete, idx is not the last row: move the last row into row idx
DeleteSwap(sh, idx, lastIdx, dim) ==
    DeleteSwapIndex(DeleteSwapData(DeleteSwapIds(sh, idx, lastIdx), idx, lastIdx, dim), idx)

\* sh.ids = sh.ids[:lastIdx]
DeleteTruncIds(sh, lastIdx) == [sh EXCEPT !.ids = Slice(sh.ids, 0, lastIdx)]

\* sh.data = sh.data[:lastIdx*dim]
DeleteTruncData(sh, lastIdx, dim) ==
    [sh EXCEPT !.data = Slice(sh.data, 0, lastIdx * dim)]

\* the identifier's index entry is left behind
DeleteIndexSkipped(sh, id) == sh

\* delete(sh.idIndex, id)
DeleteIndex(sh, id) == [sh EXCEPT !.idIndex = MapDelete(sh.idIndex, id)]

\* Delete: drop the last row and the identifier's index entry
DeleteTruncate(sh, id, lastIdx, dim) ==
    DeleteIndex(DeleteTruncData(DeleteTruncIds(sh, lastIdx), lastIdx, dim), id)

\* the last row is dropped, whichever row the identifier is at
DeleteLockedLastRow(sh, id, dim) == DeleteTruncate(sh, id, Len(sh.ids) - 1, dim)

\* the body of Delete under the shard's lock, the identifier exists
DeleteLocked(sh, id, dim) ==
    LET idx     == sh.idIndex[id]
        lastIdx == Len(sh.ids) - 1
        swapped == IF idx # lastIdx THEN DeleteSwap(sh, idx, lastIdx, dim) ELSE sh
    IN  DeleteTruncate(swapped, id, lastIdx, dim)

RECURSIVE CountFrom(_, _, _)
CountFrom(shs, i, total) ==
    IF i >= numShards THEN total
    ELSE CountFrom(shs, i + 1, total + Len(shs[i].ids))

\* the population of the first shard only
CountOfFirstShard(shs) == Len(shs[0].ids)

\* what Count returns when no writer runs
CountOf(shs) == CountFrom(shs, 0, 0)

---------------------------------------------------------------------------
(* maxHeap and container/heap over it: a binary max-heap by Distance.      *)
(* Index i of the Go slice is h[i + 1]; h[1] is the root, the slice's h[0].  *)

Result(id, dist) == [ID |-> id, Distance |-> dist]

\* a min-heap by mistake: the root would be the closest candidate
LessAscending(h, i, j) == h[i + 1].Distance < h[j + 1].Distance

\* maxHeap.Less
Less(h, i, j) == h[i + 1].Distance > h[j + 1].Distance

\* maxHeap.Swap
Swap(h, i, j) == [h EXCEPT ![i + 1] = h[j + 1], ![j + 1] = h[i + 1]]

\* heap.up
RECURSIVE up(_, _)
up(h, j) ==
    LET i == IF j = 0 THEN 0 ELSE (j - 1) \div 2
    IN  IF i = j \/ ~Less(h, j, i) THEN h
        ELSE up(Swap(h, i, j), i)

\* heap.down
RECURSIVE down(_, _, _)
down(h, i, n) ==
    LET j1 == 2 * i + 1
    IN  IF j1 >= n \/ j1 < 0 THEN h
        ELSE LET j2 == j1 + 1
                 j  == IF j2 < n /\ Less(h, j2, j1) THEN j2 ELSE j1
             IN  IF ~Less(h, j, i) THEN h
                 ELSE down(Swap(h, i, j), j, n)

\* heap.Push: maxHeap.Push appends, then up
HeapPush(h, x) == up(Append(h, x), Len(h))

\* heap.Pop: swap the root with the last, sift down, maxHeap.Pop takes the last
HeapPop(h) ==
    LET n == Len(h) - 1
        s == down(Swap(h, 0, n), 0, n)
    IN  [top |-> s[n + 1], rest |-> SubSeq(s, 1, n)]

\* the bounded push with a candidate as far as the root taking its place
OfferOnEqual(h, r, k) ==
    IF Len(h) < k THEN HeapPush(h, r)
    ELSE IF r.Distance <= h[1].Distance THEN HeapPush(HeapPop(h).rest, r)
    ELSE h

\* the bounded push of the worker loop and of the merge
Offer(h, r, k) ==
    IF Len(h) < k THEN HeapPush(h, r)
    ELSE IF r.Distance < h[1].Distance THEN HeapPush(HeapPop(h).rest, r)
    ELSE h

\* the output filled from slot 0 upwards by mistake
RECURSIVE DrainFromFront(_)
DrainFromFront(h) ==
    IF Len(h) = 0 THEN << >>
    ELSE LET p == HeapPop(h) IN <<p.top>> \o DrainFromFront(p.rest)

\* results[i] = heap.Pop(h) for i = h.Len()-1 down to 0
RECURSIVE Drain(_)
Drain(h) ==
    IF Len(h) = 0 THEN << >>
    ELSE LET p == HeapPop(h) IN Append(Drain(p.rest), p.top)

---------------------------------------------------------------------------
(* Search and SearchCosine: workers, merge, extraction *)

\* the kernel a worker calls
Dist(metric, query, vec) ==
    IF metric = "cosine" THEN CosineDistance(query, vec)
    ELSE EuclideanDistanceSquared(query, vec)

\* nWorkers := runtime.GOMAXPROCS(0), clamped to numShards
nWorkersOf(procs) == IF procs > numShards THEN numShards ELSE procs

\* the division rounded down by mistake: the last shards are never scanned
shardsPerWorkerRoundedDown(nWorkers) == numShards \div nWorkers

shardsPerWorkerOf(nWorkers) == (numShards + nWorkers - 1) \div nWorkers

\* the ranges of the workers starting one shard late
workerStartFromOne(workerID, nWorkers) == workerID * shardsPerWorkerOf(nWorkers) + 1

workerStart(workerID, nWorkers) == workerID * shardsPerWorkerOf(nWorkers)

\* the loop of a worker ending one shard early
workerEndOneShort(workerID, nWorkers) ==
    LET end == workerStart(workerID, nWorkers) + shardsPerWorkerOf(nWorkers) - 1
    IN  IF end > numShards THEN numShards ELSE end

workerEnd(workerID, nWorkers) ==
    LET end == workerStart(workerID, nWorkers) + shardsPerWorkerOf(nWorkers)
    IN  IF end > numShards THEN numShards ELSE end

\* rows i..n-1 of one shard, under its read lock
RECURSIVE ScanRows(_, _, _, _, _, _, _, _)
ScanRows(h, sh, i, n, metric, query, k, dim) ==
    IF i >= n THEN h
    ELSE \* vec := sh.data[i*dim : (i+1)*dim] and its distance, computed once
         CHOOSE scanned \in
             { ScanRows(Offer(h, Result(sh.ids[i + 1], dist), k),
                        sh, i + 1, n, metric, query, k, dim) :
                   dist \in { Dist(metric, query, vec) :
                                 vec \in {Slice(sh.data, i * dim, (i + 1) * dim)} } } : TRUE

ScanShard(h, sh, metric, query, k, dim) ==
    ScanRows(h, sh, 0, Len(sh.ids), metric, query, k, dim)

\* shards si..end-1 of one worker
RECURSIVE ScanShards(_, _, _, _, _, _, _, _)
ScanShards(h, shs, si, end, metric, query, k, dim) ==
    IF si >= end THEN h
    ELSE ScanShards(ScanShard(h, shs[si], metric, query, k, dim),
                    shs, si + 1, end, metric, query, k, dim)

\* workerResults[workerID].results
WorkerResults(shs, workerID, nWorkers, metric, query, k, dim) ==
    Drain(ScanShards(<< >>, shs, workerStart(workerID, nWorkers),
                     workerEnd(workerID, nWorkers), metric, query, k, dim))

\* the merge's inner loop over one worker's results
RECURSIVE MergeOne(_, _, _, _)
MergeOne(h, rs, i, k) ==
    IF i >= Len(rs) THEN h
    ELSE MergeOne(Offer(h, rs[i + 1], k), rs, i + 1, k)

\* the merge of the results of the first worker only
MergeFirstWorker(h, wrs, w, nWorkers, k) == MergeOne(h, wrs[0], 0, k)

\* the merge's outer loop over workerResults
RECURSIVE MergeAll(_, _, _, _, _)
MergeAll(h, wrs, w, nWorkers, k) ==
    IF w >= nWorkers THEN h
    ELSE MergeAll(MergeOne(h, wrs[w], 0, k), wrs, w + 1, nWorkers, k)

\* the extraction with the square root left out
ExtractSquared(h) == Drain(h)

\* the final extraction of Search: sqrt32 on each popped distance
ExtractSqrt(h) ==
    LET rs == Drain(h)
    IN  [i \in DOMAIN rs |-> Result(rs[i].ID, sqrt32(rs[i].Distance))]

\* the final extraction of SearchCosine
ExtractPlain(h) == Drain(h)

\* the final heap of a search with a valid query and k >= 1, no writer running
FinalHeap(shs, metric, query, k, procs, dim) ==
    LET nWorkers == nWorkersOf(procs)
        wrs == [w \in 0 .. nWorkers - 1 |->
                   WorkerResults(shs, w, nWorkers, metric, query, k, dim)]
    IN  MergeAll(<< >>, wrs, 0, nWorkers, k)

---------------------------------------------------------------------------
(* The calls.  The store is used by one caller at a time here: a call      *)
(* starts when the caller has taken the result of the call before it.      *)

NoResults == << >>

\* the goroutines of the concurrent runs
Goroutines == {1, 2}

\* a goroutine: the statement it is at, its call and the call's locals
Frame(pc, name, v, si, idx, lastIdx, total, err) ==
    [pc |-> pc, name |-> name, v |-> v, si |-> si, idx |-> idx,
     lastIdx |-> lastIdx, j |-> 0, total |-> total, err |-> err]

NoVector == [ID |-> EmptyID, Data |-> << >>]

\* a goroutine between two calls
Waiting == Frame("idle", "idle", NoVector, 0, 0, 0, 0, "nil")

\* a sync.RWMutex nobody holds
Unlocked == [writer |-> FALSE, readers |-> 0]

\* a worker of a search: the statement it is at, the shard it is at and the
\* end of its range, its heap, its results, and the read locks it holds
Worker(pc, si, end, h, results, held) ==
    [pc |-> pc, si |-> si, end |-> end, h |-> h, results |-> results, held |-> held]

\* a search: the statement it is at, its arguments, its workers and what it
\* returns; "seen" is history, the rows that were in the store at some instant
\* since the call started, and "rlocks" how often it read-locked each shard
Searching(pc, name, query, k, nWorkers, workers, res, err, seen, rlocks) ==
    [pc |-> pc, name |-> name, query |-> query, k |-> k, nWorkers |-> nWorkers,
     workers |-> workers, res |-> res, err |-> err, seen |-> seen, rlocks |-> rlocks]

NoSearch == Searching("idle", "idle", << >>, 0, 0, << >>, NoResults, "nil", {}, << >>)

Call(name, id, data, k, procs, err, idx, exists, res, n) ==
    [name |-> name, id |-> id, data |-> data, k |-> k, procs |-> procs,
     err |-> err, idx |-> idx, exists |-> exists, res |-> res, n |-> n]

Idle == Call("idle", EmptyID, << >>, 0, 0, "nil", 0, FALSE, NoResults, 0)

NoMutation == [name |-> "none", id |-> EmptyID, data |-> << >>, exists |-> FALSE, cnt |-> 0]

NewVectorStore(d) ==
    /\ dimension = d
    /\ shards = [i \in 0 .. numShards - 1 |-> NewShard]
    /\ op = Call("NewVectorStore", EmptyID, << >>, 0, 0, "nil", 0, FALSE, NoResults, d)

Insert(v) ==
    /\ UNCHANGED dimension
    /\ IF v.ID = EmptyID
       THEN /\ op' = Call("Insert", v.ID, v.Data, 0, 0, "ErrEmptyID", 0, FALSE, NoResults, 0)
            /\ UNCHANGED shards
       ELSE IF Len(v.Data) # dimension
       THEN /\ op' = Call("Insert", v.ID, v.Data, 0, 0, "ErrDimensionMismatch", 0, FALSE, NoResults, 0)
            /\ UNCHANGED shards
       ELSE LET si == shardIndex(v.ID)
                exists == v.ID \in DOMAIN shards[si].idIndex
                idx == IF exists THEN shards[si].idIndex[v.ID] ELSE 0
            IN  /\ shards' = [shards EXCEPT ![si] = InsertLocked(shards[si], v, dimension)]
                /\ op' = Call("Insert", v.ID, v.Data, 0, 0, "nil", idx, exists, NoResults, 0)

Delete(id) ==
    /\ UNCHANGED dimension
    /\ LET si == shardIndex(id)
           exists == id \in DOMAIN shards[si].idIndex
       IN  IF ~exists
           THEN /\ op' = Call("Delete", id, << >>, 0, 0, "ErrNotFound", 0, FALSE, NoResults, 0)
                /\ UNCHANGED shards
           ELSE /\ shards' = [shards EXCEPT ![si] = DeleteLocked(shards[si], id, dimension)]
                /\ op' = Call("Delete", id, << >>, 0, 0, "nil", shards[si].idIndex[id], TRUE,
                            NoResults, 0)

Count ==
    /\ op' = Call("Count", EmptyID, << >>, 0, 0, "nil", 0, FALSE, NoResults, CountOf(shards))
    /\ UNCHANGED <<dimension, shards>>

Dimension ==
    /\ op' = Call("Dimension", EmptyID, << >>, 0, 0, "nil", 0, FALSE, NoResults, dimension)
    /\ UNCHANGED <<dimension, shards>>

Search(query, k, procs) ==
    /\ UNCHANGED <<dimension, shards>>
    /\ IF Len(query) # dimension
       THEN op' = Call("Search", EmptyID, query, k, procs, "ErrDimensionMismatch", 0, FALSE, NoResults, 0)
       ELSE IF k <= 0
       THEN op' = Call("Search", EmptyID, query, k, procs, "nil", 0, FALSE, NoResults, 0)
       ELSE op' = Call("Search", EmptyID, query, k, procs, "nil", 0, FALSE,
                       ExtractSqrt(FinalHeap(shards, "euclidean", query, k, procs, dimension)), 0)

SearchCosine(query, k, procs) ==
    /\ UNCHANGED <<dimension, shards>>
    /\ IF Len(query) # dimension
       THEN op' = Call("SearchCosine", EmptyID, query, k, procs, "ErrDimensionMismatch", 0, FALSE, NoResults, 0)
       ELSE IF k <= 0
       THEN op' = Call("SearchCosine", EmptyID, query, k, procs, "nil", 0, FALSE, NoResults, 0)
       ELSE op' = Call("SearchCosine", EmptyID, query, k, procs, "nil", 0, FALSE,
                       ExtractPlain(FinalHeap(shards, "cosine", query, k, procs, dimension)), 0)

\* the caller takes the result
Return ==
    /\ op.name # "idle"
    /\ op' = Idle
    /\ UNCHANGED <<dimension, shards>>

\* the callers of the Searches that run beside each other
Queriers == {1, 2}

\* nothing watched: the population when the call started, and those since
NoWatch == [start |-> 0, held |-> {}]

\* history: no call since the store was made
NoBatch ==
    [before |-> 0, resident |-> {}, inserts |-> {}, deletes |-> {}, n |-> 0,
     distinct |-> TRUE, failed |-> FALSE, overlap |-> FALSE]

Init ==
    /\ \E d \in Dims : NewVectorStore(d)
    /\ stored = EmptyMap
    /\ hist = [last |-> NoMutation, prev |-> NoMutation]
    /\ deleted = {}
    /\ calls = [g \in Goroutines |-> Waiting]
    /\ mu = [i \in 0 .. numShards - 1 |-> Unlocked]
    /\ search = NoSearch
    /\ queries = [q \in Queriers |-> NoSearch]
    /\ watch = NoWatch
    /\ batch = NoBatch

\* the values of GOMAXPROCS a search runs under
Procs == 1 .. MaxProcs

\* one caller: every lock a call takes it has released when it returns, and
\* no goroutine runs beside it
OneCaller == UNCHANGED <<calls, mu, search, batch, queries, watch>>

\* the calls, each from the idle caller with its arguments drawn
InsertCall(vectors) ==
    \E id \in AnyID, data \in vectors :
        op.name = "idle" /\ Insert([ID |-> id, Data |-> data]) /\ OneCaller

DeleteCall == \E id \in AnyID : op.name = "idle" /\ Delete(id) /\ OneCaller

CountCall == op.name = "idle" /\ Count /\ OneCaller

DimensionCall == op.name = "idle" /\ Dimension /\ OneCaller

SearchCall(vectors, procsSet) ==
    \E query \in vectors, k \in 0 .. MaxK, procs \in procsSet :
        op.name = "idle" /\ Search(query, k, procs) /\ OneCaller

SearchCosineCall(vectors, procsSet) ==
    \E query \in vectors, k \in 0 .. MaxK, procs \in procsSet :
        op.name = "idle" /\ SearchCosine(query, k, procs) /\ OneCaller

\* history: what the successful calls have put into the store
Remember ==
    stored' = IF op'.err # "nil" THEN stored
              ELSE IF op'.name = "Insert" THEN MapPut(stored, op'.id, op'.data)
              ELSE MapDelete(stored, op'.id)

Unrecorded == UNCHANGED <<stored, hist, deleted>>

RecordNothing == UNCHANGED <<hist, deleted>>

Next ==
    \/ InsertCall(Vectors) /\ Remember /\ RecordNothing
    \/ DeleteCall /\ Remember /\ RecordNothing
    \/ CountCall /\ Unrecorded
    \/ DimensionCall /\ Unrecorded
    \/ SearchCall(Vectors, Procs) /\ Unrecorded
    \/ SearchCosineCall(Vectors, Procs) /\ Unrecorded
    \/ Return /\ OneCaller /\ Unrecorded

Spec == Init /\ [][Next]_vars

---------------------------------------------------------------------------
(* The same calls with the last successful mutation recorded, and the one  *)
(* before it when that was an Insert of the same identifier.  Failed calls *)
(* and reads change nothing and are not recorded, so two recorded calls    *)
(* follow each other with no change of the store between them.             *)

\* the payloads, queries and values of GOMAXPROCS of the recorded runs
VectorsRecorded == { Vec(<<0, 0>>), Vec(<<1, 0>>), Vec(<<3, 4>>), Vec(<<2>>) }

ProcsRecorded == {1, 3, numShards}

\* a call that changed the store, and Count() before it
Recorded(call, cnt) ==
    [name |-> call.name, id |-> call.id, data |-> call.data,
     exists |-> call.exists, cnt |-> cnt]

RecordLast ==
    hist' = IF op'.err # "nil" THEN hist
            ELSE [last |-> Recorded(op', CountOf(shards)),
                  prev |-> IF hist.last.name = "Insert" /\ hist.last.id = op'.id
                           THEN hist.last ELSE NoMutation]

NextRecorded ==
    \/ InsertCall(VectorsRecorded) /\ Remember /\ RecordLast /\ UNCHANGED deleted
    \/ DeleteCall /\ Remember /\ RecordLast /\ UNCHANGED deleted
    \/ CountCall /\ Unrecorded
    \/ DimensionCall /\ Unrecorded
    \/ SearchCall(VectorsRecorded, ProcsRecorded) /\ Unrecorded
    \/ SearchCosineCall(VectorsRecorded, ProcsRecorded) /\ Unrecorded
    \/ Return /\ OneCaller /\ Unrecorded

SpecRecorded == Init /\ [][NextRecorded]_vars

---------------------------------------------------------------------------
(* The same calls, and calls of the kernels of pkg/distance themselves, on *)
(* the scalar path and on the path of the arm64 build, with vectors of     *)
(* every length that takes a different way through the NEON kernels.       *)

\* lengths below 4 (scalar), of one loop4 round with and without a tail, of
\* one loop16 round, of loop16, loop4 and tail together, and of two loop16
\* rounds, one loop4 round and a tail of three
KernelLens == {1, 3, 4, 5, 16, 21, 39}

Zeros(n) == [i \in 1 .. n |-> 0]

\* a vector of whole numbers and one of halves
Whole(n) == [i \in 1 .. n |-> F((i % 3) - 1)]

Halves(n) == [i \in 1 .. n |-> ((i % 2) * 2 + 1) * (Scale \div 2)]

\* vectors with an infinity and with a NaN in the last and in the first place
WithInf(n) == [Whole(n) EXCEPT ![n] = PosInf]

WithNaN(n) == [Whole(n) EXCEPT ![1] = NaN]

KernelVectors(n) == {Zeros(n), Whole(n), Halves(n), WithInf(n), WithNaN(n)}

\* a call of a kernel: its arguments, and what the scalar loop and the
\* platform function of the arm64 build return
Kernel(name, a, b, scalar, platform) ==
    [name |-> name, a |-> a, b |-> b, scalar |-> scalar, platform |-> platform]

EuclideanDistanceSquaredCall ==
    \E n \in KernelLens : \E a \in KernelVectors(n), b \in KernelVectors(n) :
        /\ op.name = "idle"
        /\ op' = Kernel("EuclideanDistanceSquared", a, b,
                        EuclideanDistanceSquaredScalar(a, b),
                        euclideanDistanceSquaredPlatformArm64(a, b))
        /\ UNCHANGED <<dimension, shards>>

DotProductCall ==
    \E n \in KernelLens : \E a \in KernelVectors(n), b \in KernelVectors(n) :
        /\ op.name = "idle"
        /\ op' = Kernel("DotProduct", a, b, DotProductScalar(a, b),
                        dotProductPlatformArm64(a, b))
        /\ UNCHANGED <<dimension, shards>>

NextKernel ==
    \/ InsertCall(VectorsRecorded) /\ Remember /\ RecordNothing
    \/ DeleteCall /\ Remember /\ RecordNothing
    \/ SearchCall(VectorsRecorded, ProcsRecorded) /\ Unrecorded
    \/ EuclideanDistanceSquaredCall /\ OneCaller /\ Unrecorded
    \/ DotProductCall /\ OneCaller /\ Unrecorded
    \/ Return /\ OneCaller /\ Unrecorded

SpecKernel == Init /\ [][NextKernel]_vars

---------------------------------------------------------------------------
(* The same calls with the deleted identifiers recorded *)

RecordDeleted ==
    deleted' = IF op'.err # "nil" THEN deleted
               ELSE IF op'.name = "Delete" THEN deleted \cup {op'.id}
               ELSE deleted \ {op'.id}

NextDeleted ==
    \/ InsertCall(Vectors) /\ Remember /\ RecordDeleted /\ UNCHANGED hist
    \/ DeleteCall /\ Remember /\ RecordDeleted /\ UNCHANGED hist
    \/ CountCall /\ Unrecorded
    \/ DimensionCall /\ Unrecorded
    \/ SearchCall(Vectors, Procs) /\ Unrecorded
    \/ SearchCosineCall(Vectors, Procs) /\ Unrecorded
    \/ Return /\ OneCaller /\ Unrecorded

SpecDeleted == Init /\ [][NextDeleted]_vars

---------------------------------------------------------------------------
(* Concurrent callers.  Every goroutine calls Insert, Delete and Count one *)
(* after the other; a step is one statement of the call, so the statements *)
(* of the goroutines interleave as the scheduler lets them.  A goroutine   *)
(* that waits for a lock has no step until the lock can be taken.          *)

\* the payloads the concurrent callers insert
VectorsConcurrent == { Vec(<<1, 0>>), Vec(<<2>>) }

\* sync.RWMutex: Lock waits for the writer and the readers, RLock for the writer
\* a write lock that waits for nobody
CanLockAlways(m) == TRUE

\* a write lock that does not wait for the readers
CanLockOverReaders(m) == ~m.writer

CanLock(m) == ~m.writer /\ m.readers = 0

\* a read lock that does not wait for the writer
CanRLockAlways(m) == TRUE

CanRLock(m) == ~m.writer

\* a write lock of the whole store: it waits for every shard
LockOfStore(si) ==
    /\ \A t \in 0 .. numShards - 1 : CanLock(mu[t])
    /\ mu' = [mu EXCEPT ![si].writer = TRUE]

Lock(si) == CanLock(mu[si]) /\ mu' = [mu EXCEPT ![si].writer = TRUE]

Unlock(si) == mu' = [mu EXCEPT ![si].writer = FALSE]

RLock(si) == CanRLock(mu[si]) /\ mu' = [mu EXCEPT ![si].readers = @ + 1]

RUnlock(si) == mu' = [mu EXCEPT ![si].readers = @ - 1]

At(g, name, pc) == calls[g].name = name /\ calls[g].pc = pc

Goto(g, pc) == calls' = [calls EXCEPT ![g].pc = pc]

\* the statements of a goroutine change the shards, the locks and its frame
Concurrent == UNCHANGED <<dimension, op, stored, hist, deleted, search, batch, queries, watch>>

\* Insert with the length of the payload checked before the identifier
GoInsertLengthFirst(g, ids, vectors) ==
    \E id \in ids, data \in vectors :
        LET v == [ID |-> id, Data |-> data]
        IN  /\ calls[g].pc = "idle"
            /\ calls' = [calls EXCEPT ![g] =
                  IF Len(data) # dimension
                  THEN Frame("return", "Insert", v, 0, 0, 0, 0, "ErrDimensionMismatch")
                  ELSE IF id = EmptyID
                  THEN Frame("return", "Insert", v, 0, 0, 0, 0, "ErrEmptyID")
                  ELSE Frame("lock", "Insert", v, shardIndex(id), 0, 0, 0, "nil")]
            /\ UNCHANGED <<shards, mu>>

\* Insert: the two checks, then sh := &s.shards[shardIndex(v.ID)]
GoInsertOf(g, ids, vectors) ==
    \E id \in ids, data \in vectors :
        LET v == [ID |-> id, Data |-> data]
        IN  /\ calls[g].pc = "idle"
            /\ calls' = [calls EXCEPT ![g] =
                  IF id = EmptyID
                  THEN Frame("return", "Insert", v, 0, 0, 0, 0, "ErrEmptyID")
                  ELSE IF Len(data) # dimension
                  THEN Frame("return", "Insert", v, 0, 0, 0, 0, "ErrDimensionMismatch")
                  ELSE Frame("lock", "Insert", v, shardIndex(id), 0, 0, 0, "nil")]
            /\ UNCHANGED <<shards, mu>>

\* Insert as the concurrent callers call it
GoInsert(g) == GoInsertOf(g, AnyID, VectorsConcurrent)

\* sh.mu.Lock()
GoInsertLock(g) ==
    /\ At(g, "Insert", "lock")
    /\ Lock(calls[g].si)
    /\ Goto(g, "lookup")
    /\ UNCHANGED shards

\* the lookup that never finds the identifier
GoInsertLookupAbsent(g) ==
    /\ At(g, "Insert", "lookup")
    /\ Goto(g, "index")
    /\ UNCHANGED <<shards, mu>>

\* if idx, exists := sh.idIndex[v.ID]; exists
GoInsertLookup(g) ==
    /\ At(g, "Insert", "lookup")
    /\ LET sh == shards[calls[g].si]
           id == calls[g].v.ID
       IN  calls' = IF id \in DOMAIN sh.idIndex
                    THEN [calls EXCEPT ![g].pc = "copy", ![g].idx = sh.idIndex[id]]
                    ELSE [calls EXCEPT ![g].pc = "index"]
    /\ UNCHANGED <<shards, mu>>

\* the identifier of the new row is not appended
GoInsertIdsSkipped(g) ==
    /\ At(g, "Insert", "ids")
    /\ Goto(g, "data")
    /\ UNCHANGED <<shards, mu>>

\* copy(sh.data[idx*dim:(idx+1)*dim], v.Data); return nil
GoInsertCopy(g) ==
    /\ At(g, "Insert", "copy")
    /\ shards' = [shards EXCEPT ![calls[g].si] =
                     InsertUpdate(@, calls[g].idx, calls[g].v, dimension)]
    /\ Goto(g, "unlock")
    /\ UNCHANGED mu

GoInsertIndex(g) ==
    /\ At(g, "Insert", "index")
    /\ shards' = [shards EXCEPT ![calls[g].si] = InsertIndex(@, calls[g].v)]
    /\ Goto(g, "ids")
    /\ UNCHANGED mu

GoInsertIds(g) ==
    /\ At(g, "Insert", "ids")
    /\ shards' = [shards EXCEPT ![calls[g].si] = InsertIds(@, calls[g].v)]
    /\ Goto(g, "data")
    /\ UNCHANGED mu

\* sh.data = append(sh.data, v.Data...); return nil
GoInsertData(g) ==
    /\ At(g, "Insert", "data")
    /\ shards' = [shards EXCEPT ![calls[g].si] = InsertData(@, calls[g].v)]
    /\ Goto(g, "unlock")
    /\ UNCHANGED mu

\* Delete: sh := &s.shards[shardIndex(id)]
GoDeleteOf(g, ids) ==
    \E id \in ids :
        /\ calls[g].pc = "idle"
        /\ calls' = [calls EXCEPT ![g] =
              Frame("lock", "Delete", [ID |-> id, Data |-> << >>],
                    shardIndex(id), 0, 0, 0, "nil")]
        /\ UNCHANGED <<shards, mu>>

\* Delete as the concurrent callers call it
GoDelete(g) == GoDeleteOf(g, AnyID)

\* sh.mu.Lock()
GoDeleteLock(g) ==
    /\ At(g, "Delete", "lock")
    /\ Lock(calls[g].si)
    /\ Goto(g, "lookup")
    /\ UNCHANGED shards

\* ErrNotFound returned past the deferred Unlock
GoDeleteLookupReturns(g) ==
    /\ At(g, "Delete", "lookup")
    /\ LET sh      == shards[calls[g].si]
           id      == calls[g].v.ID
           lastIdx == Len(sh.ids) - 1
       IN  calls' = IF id \notin DOMAIN sh.idIndex
                    THEN [calls EXCEPT ![g].pc = "return", ![g].err = "ErrNotFound"]
                    ELSE [calls EXCEPT ![g].idx = sh.idIndex[id],
                                       ![g].lastIdx = lastIdx,
                                       ![g].pc = IF sh.idIndex[id] # lastIdx
                                                 THEN "swapIds" ELSE "truncIds"]
    /\ UNCHANGED <<shards, mu>>

\* idx, exists := sh.idIndex[id]; lastIdx := len(sh.ids) - 1; if idx != lastIdx
GoDeleteLookup(g) ==
    /\ At(g, "Delete", "lookup")
    /\ LET sh      == shards[calls[g].si]
           id      == calls[g].v.ID
           lastIdx == Len(sh.ids) - 1
       IN  calls' = IF id \notin DOMAIN sh.idIndex
                    THEN [calls EXCEPT ![g].pc = "unlock", ![g].err = "ErrNotFound"]
                    ELSE [calls EXCEPT ![g].idx = sh.idIndex[id],
                                       ![g].lastIdx = lastIdx,
                                       ![g].pc = IF sh.idIndex[id] # lastIdx
                                                 THEN "swapIds" ELSE "truncIds"]
    /\ UNCHANGED <<shards, mu>>

GoDeleteSwapIds(g) ==
    /\ At(g, "Delete", "swapIds")
    /\ shards' = [shards EXCEPT ![calls[g].si] =
                     DeleteSwapIds(@, calls[g].idx, calls[g].lastIdx)]
    /\ Goto(g, "swapData")
    /\ UNCHANGED mu

GoDeleteSwapData(g) ==
    /\ At(g, "Delete", "swapData")
    /\ shards' = [shards EXCEPT ![calls[g].si] =
                     DeleteSwapData(@, calls[g].idx, calls[g].lastIdx, dimension)]
    /\ Goto(g, "swapIndex")
    /\ UNCHANGED mu

GoDeleteSwapIndex(g) ==
    /\ At(g, "Delete", "swapIndex")
    /\ shards' = [shards EXCEPT ![calls[g].si] = DeleteSwapIndex(@, calls[g].idx)]
    /\ Goto(g, "truncIds")
    /\ UNCHANGED mu

GoDeleteTruncIds(g) ==
    /\ At(g, "Delete", "truncIds")
    /\ shards' = [shards EXCEPT ![calls[g].si] = DeleteTruncIds(@, calls[g].lastIdx)]
    /\ Goto(g, "truncData")
    /\ UNCHANGED mu

GoDeleteTruncData(g) ==
    /\ At(g, "Delete", "truncData")
    /\ shards' = [shards EXCEPT ![calls[g].si] =
                     DeleteTruncData(@, calls[g].lastIdx, dimension)]
    /\ Goto(g, "delIndex")
    /\ UNCHANGED mu

\* delete(sh.idIndex, id); return nil
GoDeleteIndex(g) ==
    /\ At(g, "Delete", "delIndex")
    /\ shards' = [shards EXCEPT ![calls[g].si] = DeleteIndex(@, calls[g].v.ID)]
    /\ Goto(g, "unlock")
    /\ UNCHANGED mu

\* the call returns with the lock still held
GoUnlockKept(g) ==
    /\ calls[g].pc = "unlock"
    /\ Goto(g, "return")
    /\ UNCHANGED <<shards, mu>>

\* defer sh.mu.Unlock(), of Insert and of Delete: runs as the call returns
GoUnlock(g) ==
    /\ calls[g].pc = "unlock"
    /\ Unlock(calls[g].si)
    /\ Goto(g, "return")
    /\ UNCHANGED shards

\* Count: total := 0, the loop starts at shard 0
GoCount(g) ==
    /\ calls[g].pc = "idle"
    /\ calls' = [calls EXCEPT ![g] = Frame("rlock", "Count", NoVector, 0, 0, 0, 0, "nil")]
    /\ UNCHANGED <<shards, mu>>

\* s.shards[i].mu.RLock()
GoCountRLock(g) ==
    /\ At(g, "Count", "rlock")
    /\ RLock(calls[g].si)
    /\ Goto(g, "read")
    /\ UNCHANGED shards

\* total += len(s.shards[i].ids)
GoCountRead(g) ==
    /\ At(g, "Count", "read")
    /\ calls' = [calls EXCEPT ![g].total = @ + Len(shards[calls[g].si].ids),
                              ![g].pc = "runlock"]
    /\ UNCHANGED <<shards, mu>>

\* the next shard with the read lock of this one kept
GoCountRUnlockKept(g) ==
    /\ At(g, "Count", "runlock")
    /\ calls' = [calls EXCEPT ![g].si = @ + 1,
                              ![g].pc = IF calls[g].si + 1 < numShards
                                        THEN "rlock" ELSE "return"]
    /\ UNCHANGED <<shards, mu>>

\* s.shards[i].mu.RUnlock(), and the next shard or return total
GoCountRUnlock(g) ==
    /\ At(g, "Count", "runlock")
    /\ RUnlock(calls[g].si)
    /\ calls' = [calls EXCEPT ![g].si = @ + 1,
                              ![g].pc = IF calls[g].si + 1 < numShards
                                        THEN "rlock" ELSE "return"]
    /\ UNCHANGED shards

\* Dimension waiting until no writer holds a lock
GoDimensionLocked(g) ==
    /\ calls[g].pc = "idle"
    /\ \A si \in 0 .. numShards - 1 : ~mu[si].writer
    /\ calls' = [calls EXCEPT ![g] =
                    Frame("return", "Dimension", NoVector, 0, 0, 0, dimension, "nil")]
    /\ UNCHANGED <<shards, mu>>

\* Dimension: return s.dimension
GoDimension(g) ==
    /\ calls[g].pc = "idle"
    /\ calls' = [calls EXCEPT ![g] =
                    Frame("return", "Dimension", NoVector, 0, 0, 0, dimension, "nil")]
    /\ UNCHANGED <<shards, mu>>

\* the goroutine takes the result of its call
GoReturn(g) ==
    /\ calls[g].pc = "return"
    /\ calls' = [calls EXCEPT ![g] = Waiting]
    /\ UNCHANGED <<shards, mu>>

NextConcurrent ==
    \/ \E g \in Goroutines : GoInsert(g) /\ Concurrent
    \/ \E g \in Goroutines : GoInsertLock(g) /\ Concurrent
    \/ \E g \in Goroutines : GoInsertLookup(g) /\ Concurrent
    \/ \E g \in Goroutines : GoInsertCopy(g) /\ Concurrent
    \/ \E g \in Goroutines : GoInsertIndex(g) /\ Concurrent
    \/ \E g \in Goroutines : GoInsertIds(g) /\ Concurrent
    \/ \E g \in Goroutines : GoInsertData(g) /\ Concurrent
    \/ \E g \in Goroutines : GoDelete(g) /\ Concurrent
    \/ \E g \in Goroutines : GoDeleteLock(g) /\ Concurrent
    \/ \E g \in Goroutines : GoDeleteLookup(g) /\ Concurrent
    \/ \E g \in Goroutines : GoDeleteSwapIds(g) /\ Concurrent
    \/ \E g \in Goroutines : GoDeleteSwapData(g) /\ Concurrent
    \/ \E g \in Goroutines : GoDeleteSwapIndex(g) /\ Concurrent
    \/ \E g \in Goroutines : GoDeleteTruncIds(g) /\ Concurrent
    \/ \E g \in Goroutines : GoDeleteTruncData(g) /\ Concurrent
    \/ \E g \in Goroutines : GoDeleteIndex(g) /\ Concurrent
    \/ \E g \in Goroutines : GoUnlock(g) /\ Concurrent
    \/ \E g \in Goroutines : GoCount(g) /\ Concurrent
    \/ \E g \in Goroutines : GoCountRLock(g) /\ Concurrent
    \/ \E g \in Goroutines : GoCountRead(g) /\ Concurrent
    \/ \E g \in Goroutines : GoCountRUnlock(g) /\ Concurrent
    \/ \E g \in Goroutines : GoReturn(g) /\ Concurrent

SpecConcurrent == Init /\ [][NextConcurrent]_vars

---------------------------------------------------------------------------
(* What the properties are stated with.  The reference for a search is    *)
(* the set of identifiers in "stored" with the kernel's distance to the    *)
(* query.                                                                  *)

Min(a, b) == IF a < b THEN a ELSE b

Residents == DOMAIN stored

Population == Cardinality(Residents)

ResultIDs(res) == {res[i].ID : i \in DOMAIN res}

ResultDistances(res) == [i \in DOMAIN res |-> res[i].Distance]

Occurrences(seq, x) == Cardinality({i \in DOMAIN seq : seq[i] = x})

SameMultiset(s, t) ==
    /\ Len(s) = Len(t)
    /\ \A i \in DOMAIN s : Occurrences(s, s[i]) = Occurrences(t, s[i])

\* a naive scan of the residents: every identifier with its distance
ScanSquared(query) ==
    {Result(id, EuclideanDistanceSquared(query, stored[id])) : id \in Residents}

ScanEuclidean(query) ==
    {Result(r.ID, sqrt32(r.Distance)) : r \in ScanSquared(query)}

ScanCosine(query) ==
    {Result(id, CosineDistance(query, stored[id])) : id \in Residents}

\* the naive sort: the distances of a scan in ascending order
RECURSIVE NaiveSort(_)
NaiveSort(scan) ==
    IF scan = {} THEN << >>
    ELSE LET m == CHOOSE x \in scan : \A y \in scan : x.Distance <= y.Distance
         IN  <<m.Distance>> \o NaiveSort(scan \ {m})

\* no result of the scan that res leaves out is strictly closer than one in res
NoneCloserLeftOut(res, scan) ==
    \A x \in scan : \A i \in DOMAIN res :
        x.ID \notin ResultIDs(res) => ~(x.Distance < res[i].Distance)

\* res is a valid top-k of the scan: min(k, |S|) distinct residents, each with
\* the scan's distance, none left out that is strictly closer, and the
\* distances of the first min(k, |S|) of the naive sort
ValidTopK(res, k, scan) ==
    /\ Len(res) = Min(k, Population)
    /\ Cardinality(ResultIDs(res)) = Len(res)
    /\ \A i \in DOMAIN res : res[i] \in scan
    /\ NoneCloserLeftOut(res, scan)
    /\ SameMultiset(ResultDistances(res), SubSeq(NaiveSort(scan), 1, Min(k, Population)))

Searched(name) == op.name = name /\ op.err = "nil" /\ op.k >= 1

\* the residents lie in the ranges of at least two different workers
SplitOverWorkers(procs) ==
    \E x \in Residents, y \in Residents :
        shardIndex(x) \div shardsPerWorkerOf(nWorkersOf(procs))
            # shardIndex(y) \div shardsPerWorkerOf(nWorkersOf(procs))

---------------------------------------------------------------------------
(* C1: with no mutation running, for every query of length D, every k >= 1 *)
(* and every worker count, Search returns a valid top-k of the residents   *)
(* under Euclidean distance: min(k, |S|) distinct resident identifiers,    *)
(* each with its true distance, no identifier left out strictly closer     *)
(* (by squared or by true distance) than one returned, and the multiset of *)
(* distances of a naive scan-and-sort.                                     *)
C1_SearchTopK ==
    Searched("Search") =>
        LET squared == ScanSquared(op.data)
        IN  /\ ValidTopK(op.res, op.k, ScanEuclidean(op.data))
            /\ \A x \in squared : \A y \in squared :
                   (x.ID \notin ResultIDs(op.res) /\ y.ID \in ResultIDs(op.res))
                       => ~(x.Distance < y.Distance)

\* a search by several workers that leaves a resident out and merges the
\* candidates of two workers
C1_Witness ==
    /\ Searched("Search")
    /\ op.k = 2 /\ Population = 3
    /\ op.procs = 5 /\ SplitOverWorkers(op.procs)
    /\ shardIndex(op.res[1].ID) # shardIndex(op.res[2].ID)
    /\ op.res[1].Distance < op.res[2].Distance

(* C2: Search and SearchCosine return their results in non-decreasing      *)
(* distance order, min(k, |S|) of them; when k is at least the population  *)
(* every resident is returned exactly once.                                *)
C2_AscendingOrder ==
    (op.name \in {"Search", "SearchCosine"} /\ op.err = "nil") =>
        /\ Len(op.res) = Min(op.k, Population)
        /\ \A i \in DOMAIN op.res : \A j \in DOMAIN op.res :
               i < j => op.res[i].Distance <= op.res[j].Distance
        /\ op.k >= Population =>
               /\ ResultIDs(op.res) = Residents
               /\ \A id \in Residents :
                      Cardinality({i \in DOMAIN op.res : op.res[i].ID = id}) = 1

\* k exceeds the population and three residents come back at three distances
C2_Witness ==
    /\ op.name = "SearchCosine" /\ op.err = "nil"
    /\ op.k = MaxK /\ Population = 3 /\ Len(op.res) = 3
    /\ op.res[1].Distance < op.res[2].Distance
    /\ op.res[2].Distance < op.res[3].Distance

(* C3: with no mutation running, for every query of length D, every k >= 1 *)
(* and every worker count, SearchCosine returns a valid top-k of the       *)
(* residents under cosine distance, each distance being the kernel's       *)
(* 1 - cosine similarity, unmodified.                                      *)
C3_SearchCosineTopK ==
    Searched("SearchCosine") => ValidTopK(op.res, op.k, ScanCosine(op.data))

\* a cosine search by several workers that leaves the farthest resident out
C3_Witness ==
    /\ Searched("SearchCosine")
    /\ op.k = 2 /\ Population = 3
    /\ op.procs = numShards /\ SplitOverWorkers(op.procs)
    /\ op.res[1].Distance < op.res[2].Distance
    /\ \E x \in ScanCosine(op.data) :
           x.ID \notin ResultIDs(op.res) /\ x.Distance > op.res[2].Distance

ShardIndices == 0 .. numShards - 1

\* fnv1a32(id) mod 16 of the identifiers of the model; 65536 is a multiple of
\* 16, so the hash mod 16 is its low half mod 16
HashMod16 == [id \in AnyID |-> fnv1a32(id)[2] % 16]

\* the rows of the store: every identifier in a shard's ids with its D floats
RowAt(sh, i, dim) == <<sh.ids[i + 1], Slice(sh.data, i * dim, (i + 1) * dim)>>

ResidentRows(shs, dim) ==
    UNION {{RowAt(shs[si], i, dim) : i \in 0 .. Len(shs[si].ids) - 1} : si \in ShardIndices}

ResidentIn(shs, id) ==
    \E si \in ShardIndices : \E i \in DOMAIN shs[si].ids : shs[si].ids[i] = id

LockFree(si) == ~mu[si].writer /\ mu[si].readers = 0

Bijection(sh) ==
    /\ \A id \in DOMAIN sh.idIndex :
           /\ sh.idIndex[id] >= 0 /\ sh.idIndex[id] < Len(sh.ids)
           /\ sh.ids[sh.idIndex[id] + 1] = id
    /\ \A i \in 0 .. Len(sh.ids) - 1 :
           /\ sh.ids[i + 1] \in DOMAIN sh.idIndex
           /\ sh.idIndex[sh.ids[i + 1]] = i

NoDuplicates(sh) ==
    \A i \in DOMAIN sh.ids : \A j \in DOMAIN sh.ids : sh.ids[i] = sh.ids[j] => i = j

(* C4: whatever Insert and Delete calls have run or are running, succeeded *)
(* or failed, one after the other or interleaved, every shard whose lock   *)
(* is free has idIndex and the positions of ids in bijection (every entry  *)
(* (id, i) of idIndex has i < len(ids) and ids[i] = id, every row i has    *)
(* idIndex[ids[i]] = i) and no identifier twice in ids.                    *)
C4_IndexBijection ==
    \A si \in ShardIndices :
        LockFree(si) => Bijection(shards[si]) /\ NoDuplicates(shards[si])

\* a Delete that moved the last row has returned and left its shard free
\* and populated, while another goroutine is in the middle of an append
\* (its shard, locked, has an index entry without a row)
C4_Witness ==
    \E g \in Goroutines : \E h \in Goroutines :
        /\ calls[g].name = "Delete" /\ calls[g].pc = "return"
        /\ calls[g].err = "nil" /\ calls[g].idx # calls[g].lastIdx
        /\ LockFree(calls[g].si) /\ Len(shards[calls[g].si].ids) >= 1
        /\ calls[h].name = "Insert" /\ calls[h].pc = "ids"
        /\ ~Bijection(shards[calls[h].si])

\* each row of a shard holds the payload last inserted under its identifier
DenseRows ==
    \A si \in ShardIndices :
        LET sh == shards[si]
        IN  /\ Len(sh.data) = Len(sh.ids) * dimension
            /\ \A i \in 0 .. Len(sh.ids) - 1 :
                   /\ sh.ids[i + 1] \in Residents
                   /\ Slice(sh.data, i * dimension, (i + 1) * dimension)
                          = stored[sh.ids[i + 1]]

\* by how many floats a call changes the data of each shard
DataDelta ==
    (op'.name \in {"Insert", "Delete"}) =>
        \A si \in ShardIndices :
            Len(shards'[si].data) - Len(shards[si].data) =
                IF op'.err # "nil" \/ si # shardIndex(op'.id) THEN 0
                ELSE IF op'.name = "Delete" THEN 0 - dimension
                ELSE IF ResidentIn(shards, op'.id) THEN 0
                ELSE dimension

(* C5: after any sequence of Insert and Delete calls every shard's data is *)
(* densely packed: len(data) = len(ids) * D and row i's payload is         *)
(* data[i*D : (i+1)*D]; an append adds exactly D floats to its shard, an   *)
(* upsert none, a delete removes exactly D, and no call changes the length *)
(* of another shard's data.                                                *)
C5_DenseData == []DenseRows /\ [][DataDelta]_vars

\* a Delete of a shard's first row has moved the last row into its place,
\* two floats wide, and another shard is populated
C5_Witness ==
    /\ op.name = "Delete" /\ op.err = "nil" /\ op.idx = 0
    /\ dimension = 2
    /\ Len(shards[shardIndex(op.id)].ids) = 1
    /\ Len(shards[shardIndex(op.id)].data) = 2
    /\ Population = 2

(* C6: in every reachable state every identifier resident in shard s has   *)
(* s = fnv1a32(id) mod 16, so no identifier is resident in two shards; the *)
(* shard a running Insert or Delete works on is fnv1a32 of its identifier  *)
(* mod 16 as well, whichever of the two it is.                             *)
C6_ShardPlacement ==
    /\ \A si \in ShardIndices :
           /\ \A i \in DOMAIN shards[si].ids :
                  si = HashMod16[shards[si].ids[i]]
           /\ \A id \in DOMAIN shards[si].idIndex : si = HashMod16[id]
    /\ \A si \in ShardIndices : \A sj \in ShardIndices :
           \A i \in DOMAIN shards[si].ids : \A j \in DOMAIN shards[sj].ids :
               shards[si].ids[i] = shards[sj].ids[j] => si = sj
    /\ \A g \in Goroutines :
           (calls[g].name \in {"Insert", "Delete"} /\ calls[g].pc # "return")
               => calls[g].si = HashMod16[calls[g].v.ID]

\* two shards are populated, one of them with two identifiers, while an
\* Insert and a Delete of one identifier wait for the same shard
C6_Witness ==
    /\ Len(shards[12].ids) = 2 /\ Len(shards[7].ids) = 1
    /\ \E g \in Goroutines : \E h \in Goroutines :
           /\ calls[g].name = "Insert" /\ calls[h].name = "Delete"
           /\ calls[g].v.ID = calls[h].v.ID
           /\ calls[g].pc = "lock" /\ calls[h].pc = "lock"
           /\ calls[g].si = 7

\* the frame of an Insert of a resident identifier
UpsertFrame ==
    /\ op'.err = "nil"
    /\ CountOf(shards') = CountOf(shards)
    /\ \A si \in ShardIndices :
           LET sh == shards[si]
           IN  /\ shards'[si].ids = sh.ids
               /\ shards'[si].idIndex = sh.idIndex
               /\ Len(shards'[si].data) = Len(sh.data)
               /\ \A i \in 0 .. Len(sh.ids) - 1 :
                      RowAt(shards'[si], i, dimension) =
                          IF sh.ids[i + 1] = op'.id THEN <<op'.id, op'.data>>
                          ELSE RowAt(sh, i, dimension)

(* C7, amended: Insert(v) of a payload of length D under an identifier     *)
(* that is resident is an upsert: it returns success, replaces exactly     *)
(* that identifier's D floats with v's payload, and leaves every shard's   *)
(* ids, idIndex and population, the identifier's row index and every other *)
(* row's payload unchanged; Count() is unchanged.                          *)
C7_UpsertFrame ==
    [][(op'.name = "Insert" /\ ResidentIn(shards, op'.id)
            /\ Len(op'.data) = dimension) => UpsertFrame]_vars

(* C7 as stated, for every payload: Insert(v) under an identifier that is  *)
(* resident returns success, replaces exactly that identifier's payload    *)
(* and leaves the rest unchanged.                                          *)
C7_AsStated ==
    [][(op'.name = "Insert" /\ ResidentIn(shards, op'.id)) => UpsertFrame]_vars

\* an upsert of the second row of a shard has returned
C7_Witness ==
    /\ op.name = "Insert" /\ op.err = "nil" /\ op.exists /\ op.idx = 1
    /\ dimension = 2
    /\ \E si \in ShardIndices :
           /\ Len(shards[si].ids) = 2
           /\ shards[si].ids[2] = op.id
           /\ Slice(shards[si].data, 2, 4) = op.data
           /\ Slice(shards[si].data, 0, 2) # op.data

\* the last two calls that changed the store were insert(v); insert(v)
InsertedTwice ==
    /\ hist.prev.name = "Insert" /\ hist.last.name = "Insert"
    /\ hist.prev.id = hist.last.id /\ hist.prev.data = hist.last.data

\* a Search for the payload of the last recorded call has returned
SearchedLastPayload ==
    op.name = "Search" /\ op.err = "nil" /\ op.data = hist.last.data

\* the residents other than id whose payload is the query
OthersAtZero(query, id) ==
    {x \in Residents \ {id} : EuclideanDistanceSquared(query, stored[x]) = 0}

FoundAtZero(id) == \E i \in DOMAIN op.res : op.res[i] = Result(id, 0)

(* C8, amended: after insert(v); insert(v) with the same identifier and    *)
(* payload, Count() has the value it had after the first insert, and a     *)
(* Search for q = v.payload contains v.id at distance 0 whenever k exceeds *)
(* the number of other residents whose payload equals q.                   *)
C8_InsertTwice ==
    InsertedTwice =>
        /\ CountOf(shards) = hist.last.cnt
        /\ (SearchedLastPayload
                /\ op.k > Cardinality(OthersAtZero(op.data, hist.last.id)))
               => FoundAtZero(hist.last.id)

(* C8 as stated: after insert(v); insert(v), Count() has the value it had  *)
(* after the first insert and every Search for q = v.payload with k >= 1   *)
(* contains v.id at distance 0.                                            *)
C8_AsStated ==
    InsertedTwice =>
        /\ CountOf(shards) = hist.last.cnt
        /\ (SearchedLastPayload /\ op.k >= 1) => FoundAtZero(hist.last.id)

\* after insert(v); insert(v) a Search with k = 2 returns v.id at distance 0
\* out of three residents, one of them with the same payload as v
C8_Witness ==
    /\ InsertedTwice /\ SearchedLastPayload
    /\ op.k = 2 /\ Population = 3
    /\ Cardinality(OthersAtZero(op.data, hist.last.id)) = 1
    /\ FoundAtZero(hist.last.id)
    /\ CountOf(shards) = 3

\* the last two calls that changed the store were insert(v); delete(v.id)
InsertedThenDeleted ==
    /\ hist.prev.name = "Insert" /\ hist.last.name = "Delete"
    /\ hist.prev.id = hist.last.id

NotFoundLastDeleted ==
    (op.name \in {"Search", "SearchCosine"})
        => hist.last.id \notin ResultIDs(op.res)

(* C9, amended: insert(v); delete(v.id) restores Count() to the value it   *)
(* had before the insert when v.id was not resident before the insert;     *)
(* when it was, the insert is an upsert and Count() ends one below that    *)
(* value.  In both cases no later Search or SearchCosine contains v.id.    *)
C9_InsertDelete ==
    InsertedThenDeleted =>
        /\ CountOf(shards) = IF hist.prev.exists THEN hist.prev.cnt - 1
                             ELSE hist.prev.cnt
        /\ NotFoundLastDeleted

(* C9 as stated: insert(v); delete(v.id) restores Count() to the value it  *)
(* had before the insert and no later search contains v.id.                *)
C9_AsStated ==
    InsertedThenDeleted =>
        /\ CountOf(shards) = hist.prev.cnt
        /\ NotFoundLastDeleted

\* after insert(v); delete(v.id) of an identifier that was not resident, a
\* search returns the two residents that are left
C9_Witness ==
    /\ InsertedThenDeleted /\ ~hist.prev.exists
    /\ op.name = "Search" /\ op.err = "nil" /\ op.k = 2
    /\ Len(op.res) = 2 /\ CountOf(shards) = 2 /\ hist.prev.cnt = 2

\* no search returns an identifier that was deleted and not inserted since
NoDeletedFound ==
    (op.name \in {"Search", "SearchCosine"})
        => ResultIDs(op.res) \cap deleted = {}

\* what a Delete of a resident identifier returns and does to the store
DeleteFrame ==
    (op'.name = "Delete" /\ ResidentIn(shards, op'.id)) =>
        /\ op'.err = "nil"
        /\ CountOf(shards') = CountOf(shards) - 1
        /\ ~ResidentIn(shards', op'.id)
        /\ ResidentRows(shards', dimension) =
               {r \in ResidentRows(shards, dimension) : r[1] # op'.id}

(* C10: Delete(id) of a resident identifier returns success, decreases     *)
(* Count() by exactly one and keeps every other identifier resident with   *)
(* its payload; no Search or SearchCosine that starts after the Delete has *)
(* returned contains id, unless id has been inserted again in between.     *)
C10_Delete == []NoDeletedFound /\ [][DeleteFrame]_vars

\* a first row was deleted and the last row moved into its place; a search
\* for as many results as there are residents then returns the moved
\* identifier and not the deleted one
C10_Witness ==
    /\ op.name = "SearchCosine" /\ op.err = "nil" /\ op.k = MaxK
    /\ deleted = {IdA}
    /\ ResultIDs(op.res) = {IdQ, IdV}
    /\ shardIndex(IdA) = shardIndex(IdQ)

\* what Insert(v) returns, by its two checks in their order
InsertError(v) ==
    IF v.ID = EmptyID THEN "ErrEmptyID"
    ELSE IF Len(v.Data) # dimension THEN "ErrDimensionMismatch"
    ELSE "nil"

\* every Insert that has returned has returned what its checks say
InsertReturns ==
    \A g \in Goroutines :
        (calls[g].name = "Insert" /\ calls[g].pc = "return")
            => calls[g].err = InsertError(calls[g].v)

\* an Insert that fails a check returns in the step it starts in, with the
\* locks and the shards as they were; one that passes goes on to the lock
InsertStart ==
    \A g \in Goroutines :
        (calls[g].pc = "idle" /\ calls'[g].name = "Insert") =>
            IF InsertError(calls'[g].v) # "nil"
            THEN /\ calls'[g].pc = "return"
                 /\ calls'[g].err = InsertError(calls'[g].v)
                 /\ mu' = mu /\ shards' = shards
            ELSE calls'[g].pc = "lock" /\ calls'[g].err = "nil"

(* C11: Insert(v) returns ErrEmptyID iff v.ID is empty (also when the      *)
(* payload length is wrong too), otherwise ErrDimensionMismatch iff        *)
(* len(v.Data) # D, otherwise nil; on either error it takes no lock and    *)
(* leaves every shard's ids, data and idIndex unchanged.                   *)
C11_InsertErrors == []InsertReturns /\ [][InsertStart]_vars

\* an Insert with an empty identifier and a payload of the wrong length has
\* returned ErrEmptyID while another goroutine holds a shard's write lock
C11_Witness ==
    \E g \in Goroutines : \E h \in Goroutines :
        /\ calls[g].name = "Insert" /\ calls[g].pc = "return"
        /\ calls[g].v.ID = EmptyID /\ Len(calls[g].v.Data) # dimension
        /\ calls[g].err = "ErrEmptyID"
        /\ calls[h].pc = "lookup" /\ mu[calls[h].si].writer

\* the statements of Insert and Delete between Lock and Unlock
WriterInside(g, si) ==
    /\ calls[g].name \in {"Insert", "Delete"}
    /\ calls[g].si = si
    /\ calls[g].pc \notin {"idle", "lock", "return"}

InShard(sh, id) == \E i \in DOMAIN sh.ids : sh.ids[i] = id

\* the lookup of Delete runs with the write lock held and finds the
\* identifier iff it is in the shard's ids
DeleteLookup ==
    \A g \in Goroutines :
        (At(g, "Delete", "lookup") /\ calls'[g].pc # "lookup") =>
            /\ mu[calls[g].si].writer
            /\ (calls'[g].err = "ErrNotFound")
                   <=> ~InShard(shards[calls[g].si], calls[g].v.ID)
            /\ calls'[g].err \in {"nil", "ErrNotFound"}

\* from the lookup that fails to the return nothing changes the shard
NotFoundFrame ==
    \A g \in Goroutines :
        (calls'[g].name = "Delete" /\ calls'[g].err = "ErrNotFound"
             /\ calls[g].name = "Delete" /\ calls[g].pc # "return")
            => shards'[calls[g].si] = shards[calls[g].si]

\* a write lock is held exactly while a writer is between Lock and Unlock
WriteLockHeld ==
    \A si \in ShardIndices :
        mu[si].writer <=> \E g \in Goroutines : WriterInside(g, si)

\* when a Delete has returned, whatever it returned, its shard's write lock
\* is free or another goroutine has taken it
DeleteReleased ==
    \A g \in Goroutines :
        (calls[g].name = "Delete" /\ calls[g].pc = "return"
             /\ mu[calls[g].si].writer)
            => \E h \in Goroutines : h # g /\ WriterInside(h, calls[g].si)

(* C12: Delete(id) returns ErrNotFound iff id is not in its routed shard   *)
(* when Delete looks it up with the shard's write lock held (so for the    *)
(* empty identifier and for one already deleted); a Delete that returns    *)
(* ErrNotFound leaves the shard's ids, data and idIndex unchanged and has  *)
(* released the write lock when it returns.                                *)
C12_DeleteNotFound ==
    /\ [](WriteLockHeld /\ DeleteReleased)
    /\ [][DeleteLookup /\ NotFoundFrame]_vars

\* a Delete of an identifier that is not resident has returned ErrNotFound
\* from a shard that holds another identifier and whose lock is free again
C12_Witness ==
    \E g \in Goroutines :
        /\ calls[g].name = "Delete" /\ calls[g].pc = "return"
        /\ calls[g].err = "ErrNotFound" /\ calls[g].v.ID = IdA
        /\ shards[calls[g].si].ids = <<IdQ>>
        /\ LockFree(calls[g].si)

---------------------------------------------------------------------------
(* A search beside a writer.  One goroutine calls Insert and Delete        *)
(* statement by statement, the copies of a payload one float at a time;    *)
(* beside it runs a Search or a SearchCosine whose workers take the read   *)
(* lock of a shard, scan it and release the lock, shard after shard.       *)

\* the goroutines that write beside the search
Writers == {1}

\* the payloads written beside the search, and its arguments
\* two identifiers of one shard
IDsSearching == {IdA, IdQ}

VectorsSearching == { Vec(<<1, 0>>), Vec(<<3, 4>>) }

QueriesSearching == { Vec(<<1, 0>>), Vec(<<2>>) }

KsSearching == {0, 2}

ProcsSearching == {1}

\* the rows of a shard: those that have their identifier and their payload
RowsOf(sh) ==
    {RowAt(sh, i, dimension) :
         i \in 0 .. Min(Len(sh.ids), Len(sh.data) \div dimension) - 1}

\* every worker going through all the shards
NewWorkerWholeStore(workerID, nWorkers) ==
    Worker("rlock", 0, numShards, << >>, NoResults, {})

\* go func(workerID int): h := &maxHeap{}, start and end
NewWorker(workerID, nWorkers) ==
    LET start == workerStart(workerID, nWorkers)
        end   == workerEnd(workerID, nWorkers)
    IN  Worker(IF start < end THEN "rlock" ELSE "drain", start, end, << >>, NoResults, {})

\* only a negative k returns early
BeginNegativeK(name, query, k, procs) ==
    /\ search.pc = "idle"
    /\ search' =
         IF Len(query) # dimension
         THEN Searching("return", name, query, k, 0, << >>, NoResults,
                        "ErrDimensionMismatch", {}, << >>)
         ELSE IF k < 0
         THEN Searching("return", name, query, k, 0, << >>, NoResults, "nil", {}, << >>)
         ELSE LET nWorkers == nWorkersOf(procs)
              IN  Searching("wait", name, query, k, nWorkers,
                            [w \in 0 .. nWorkers - 1 |-> NewWorker(w, nWorkers)],
                            NoResults, "nil", {},
                            [si \in ShardIndices |-> 0])
    /\ UNCHANGED <<shards, mu, calls>>

\* the two checks in the other order: k before the length of the query
BeginKFirst(name, query, k, procs) ==
    /\ search.pc = "idle"
    /\ search' =
         IF k <= 0
         THEN Searching("return", name, query, k, 0, << >>, NoResults, "nil", {}, << >>)
         ELSE IF Len(query) # dimension
         THEN Searching("return", name, query, k, 0, << >>, NoResults,
                        "ErrDimensionMismatch", {}, << >>)
         ELSE LET nWorkers == nWorkersOf(procs)
              IN  Searching("wait", name, query, k, nWorkers,
                            [w \in 0 .. nWorkers - 1 |-> NewWorker(w, nWorkers)],
                            NoResults, "nil", {},
                            [si \in ShardIndices |-> 0])
    /\ UNCHANGED <<shards, mu, calls>>

\* Search and SearchCosine up to wg.Wait(): the two checks, nWorkers, and
\* the workers started
Begin(name, query, k, procs) ==
    /\ search.pc = "idle"
    /\ search' =
         IF Len(query) # dimension
         THEN Searching("return", name, query, k, 0, << >>, NoResults,
                        "ErrDimensionMismatch", {}, << >>)
         ELSE IF k <= 0
         THEN Searching("return", name, query, k, 0, << >>, NoResults, "nil", {}, << >>)
         ELSE LET nWorkers == nWorkersOf(procs)
              IN  Searching("wait", name, query, k, nWorkers,
                            [w \in 0 .. nWorkers - 1 |-> NewWorker(w, nWorkers)],
                            NoResults, "nil", {},
                            [si \in ShardIndices |-> 0])
    /\ UNCHANGED <<shards, mu, calls>>

SearchBegin ==
    \E query \in QueriesSearching, k \in KsSearching, procs \in ProcsSearching :
        Begin("Search", query, k, procs)

SearchCosineBegin ==
    \E query \in QueriesSearching, k \in KsSearching, procs \in ProcsSearching :
        Begin("SearchCosine", query, k, procs)

WorkerAt(w, pc) ==
    search.pc = "wait" /\ w \in DOMAIN search.workers /\ search.workers[w].pc = pc

Metric == IF search.name = "SearchCosine" THEN "cosine" ELSE "euclidean"

\* sh.mu.RLock(); history: the rows of the shard as the lock is taken
WorkerRLock(w) ==
    /\ WorkerAt(w, "rlock")
    /\ LET si == search.workers[w].si
       IN  /\ RLock(si)
           /\ search' = [search EXCEPT !.workers[w].pc = "scan",
                                       !.workers[w].held = @ \cup {si},
                                       !.seen = @ \cup RowsOf(shards[si]),
                                       !.rlocks[si] = @ + 1]
    /\ UNCHANGED <<shards, calls>>

\* the loop over the rows of the shard
WorkerScan(w) ==
    /\ WorkerAt(w, "scan")
    /\ search' = [search EXCEPT
                     !.workers[w].h = ScanShard(@, shards[search.workers[w].si], Metric,
                                                search.query, search.k, dimension),
                     !.workers[w].pc = "runlock"]
    /\ UNCHANGED <<shards, mu, calls>>

\* the next shard of the worker's range with the read lock kept
WorkerRUnlockKept(w) ==
    /\ WorkerAt(w, "runlock")
    /\ LET si == search.workers[w].si
       IN  search' = [search EXCEPT
                         !.workers[w].si = si + 1,
                         !.workers[w].pc = IF si + 1 < search.workers[w].end
                                           THEN "rlock" ELSE "drain"]
    /\ UNCHANGED <<shards, mu, calls>>

\* sh.mu.RUnlock(), and the next shard of the worker's range
WorkerRUnlock(w) ==
    /\ WorkerAt(w, "runlock")
    /\ LET si == search.workers[w].si
       IN  /\ RUnlock(si)
           /\ search' = [search EXCEPT
                            !.workers[w].held = @ \ {si},
                            !.workers[w].si = si + 1,
                            !.workers[w].pc = IF si + 1 < search.workers[w].end
                                              THEN "rlock" ELSE "drain"]
    /\ UNCHANGED <<shards, calls>>

\* the worker's results, popped from its heap into workerResults; wg.Done()
WorkerDrain(w) ==
    /\ WorkerAt(w, "drain")
    /\ search' = [search EXCEPT !.workers[w].results = Drain(search.workers[w].h),
                                !.workers[w].h = << >>,
                                !.workers[w].pc = "done"]
    /\ UNCHANGED <<shards, mu, calls>>

\* the merge as soon as one worker is done
SearchMergeEarly ==
    /\ search.pc = "wait"
    /\ \E w \in DOMAIN search.workers : search.workers[w].pc = "done"
    /\ LET wrs == [w \in DOMAIN search.workers |-> search.workers[w].results]
           h   == MergeAll(<< >>, wrs, 0, search.nWorkers, search.k)
       IN  search' = [search EXCEPT
                         !.res = IF search.name = "Search" THEN ExtractSqrt(h)
                                 ELSE ExtractPlain(h),
                         !.pc = "return"]
    /\ UNCHANGED <<shards, mu, calls>>

\* wg.Wait() has returned: the merge and the final extraction
SearchMerge ==
    /\ search.pc = "wait"
    /\ \A w \in DOMAIN search.workers : search.workers[w].pc = "done"
    /\ LET wrs == [w \in DOMAIN search.workers |-> search.workers[w].results]
           h   == MergeAll(<< >>, wrs, 0, search.nWorkers, search.k)
       IN  search' = [search EXCEPT
                         !.res = IF search.name = "Search" THEN ExtractSqrt(h)
                                 ELSE ExtractPlain(h),
                         !.pc = "return"]
    /\ UNCHANGED <<shards, mu, calls>>

\* the caller takes the results
SearchReturn ==
    /\ search.pc = "return"
    /\ search' = NoSearch
    /\ UNCHANGED <<shards, mu, calls>>

\* Insert beside the search
GoInsertSearching(g) == GoInsertOf(g, IDsSearching, VectorsSearching)

\* Delete beside the search
GoDeleteSearching(g) == GoDeleteOf(g, IDsSearching)

\* copy(sh.data[idx*dim:(idx+1)*dim], v.Data), one float; return nil at the end
GoInsertCopyOne(g) ==
    /\ At(g, "Insert", "copy")
    /\ LET j == calls[g].j
       IN  /\ shards' = [shards EXCEPT ![calls[g].si].data[calls[g].idx * dimension + j + 1] =
                            calls[g].v.Data[j + 1]]
           /\ calls' = [calls EXCEPT ![g].j = j + 1,
                                     ![g].pc = IF j + 1 < dimension THEN "copy" ELSE "unlock"]
    /\ UNCHANGED mu

\* copy(sh.data[idx*dim:(idx+1)*dim], sh.data[lastIdx*dim:(lastIdx+1)*dim]), one float
GoDeleteSwapDataOne(g) ==
    /\ At(g, "Delete", "swapData")
    /\ LET j == calls[g].j
       IN  /\ shards' = [shards EXCEPT ![calls[g].si].data[calls[g].idx * dimension + j + 1] =
                            shards[calls[g].si].data[calls[g].lastIdx * dimension + j + 1]]
           /\ calls' = [calls EXCEPT ![g].j = j + 1,
                                     ![g].pc = IF j + 1 < dimension THEN "swapData"
                                               ELSE "swapIndex"]
    /\ UNCHANGED mu

\* the statements of the writer leave the search alone
BesideSearch == UNCHANGED <<dimension, op, stored, hist, deleted, search, batch, queries, watch>>

\* the statements of the search change nothing but the locks and the search
OfSearch == UNCHANGED <<dimension, op, stored, hist, deleted, batch, queries, watch>>

NextSearching ==
    \/ \E g \in Writers : GoInsertSearching(g) /\ BesideSearch
    \/ \E g \in Writers : GoInsertLock(g) /\ BesideSearch
    \/ \E g \in Writers : GoInsertLookup(g) /\ BesideSearch
    \/ \E g \in Writers : GoInsertCopyOne(g) /\ BesideSearch
    \/ \E g \in Writers : GoInsertIndex(g) /\ BesideSearch
    \/ \E g \in Writers : GoInsertIds(g) /\ BesideSearch
    \/ \E g \in Writers : GoInsertData(g) /\ BesideSearch
    \/ \E g \in Writers : GoDeleteSearching(g) /\ BesideSearch
    \/ \E g \in Writers : GoDeleteLock(g) /\ BesideSearch
    \/ \E g \in Writers : GoDeleteLookup(g) /\ BesideSearch
    \/ \E g \in Writers : GoDeleteSwapIds(g) /\ BesideSearch
    \/ \E g \in Writers : GoDeleteSwapDataOne(g) /\ BesideSearch
    \/ \E g \in Writers : GoDeleteSwapIndex(g) /\ BesideSearch
    \/ \E g \in Writers : GoDeleteTruncIds(g) /\ BesideSearch
    \/ \E g \in Writers : GoDeleteTruncData(g) /\ BesideSearch
    \/ \E g \in Writers : GoDeleteIndex(g) /\ BesideSearch
    \/ \E g \in Writers : GoUnlock(g) /\ BesideSearch
    \/ \E g \in Writers : GoReturn(g) /\ BesideSearch
    \/ SearchBegin /\ OfSearch
    \/ SearchCosineBegin /\ OfSearch
    \/ \E w \in DOMAIN search.workers : WorkerRLock(w) /\ OfSearch
    \/ \E w \in DOMAIN search.workers : WorkerScan(w) /\ OfSearch
    \/ \E w \in DOMAIN search.workers : WorkerRUnlock(w) /\ OfSearch
    \/ \E w \in DOMAIN search.workers : WorkerDrain(w) /\ OfSearch
    \/ SearchMerge /\ OfSearch
    \/ SearchReturn /\ OfSearch

SpecSearching == Init /\ [][NextSearching]_vars

---------------------------------------------------------------------------
(* Writers in batches.  Goroutines call Insert and Delete concurrently;    *)
(* the calls started from the moment all goroutines were idle until they   *)
(* are all idle again are a batch, as the calls between the start of the   *)
(* goroutines of a test and its wg.Wait().                                 *)

\* the number of calls of a batch
MaxBatch == 3

\* the identifiers in the store
ResidentIDs == {id \in IDs : ResidentIn(shards, id)}

\* all goroutines are idle
Quiescent == \A g \in Goroutines : calls[g].pc = "idle"

\* history: goroutine g has started a call
Enter(g) ==
    LET b  == IF Quiescent
              THEN [before |-> CountOf(shards), resident |-> ResidentIDs,
                    inserts |-> {}, deletes |-> {}, n |-> 0,
                    distinct |-> TRUE, failed |-> FALSE, overlap |-> FALSE]
              ELSE batch
        id == calls'[g].v.ID
    IN  /\ b.n < MaxBatch
        /\ batch' = [b EXCEPT
                        !.n = @ + 1,
                        !.inserts = IF calls'[g].name = "Insert" THEN @ \cup {id} ELSE @,
                        !.deletes = IF calls'[g].name = "Delete" THEN @ \cup {id} ELSE @,
                        !.distinct = @ /\ id \notin (b.inserts \cup b.deletes),
                        !.failed = @ \/ calls'[g].pc = "return",
                        !.overlap = @ \/ ~Quiescent]

\* the statements of a call leave the history as it is
InBatch == UNCHANGED <<dimension, op, stored, hist, deleted, search, batch, queries, watch>>

\* the start of a call is recorded
Entering == UNCHANGED <<dimension, op, stored, hist, deleted, search, queries, watch>>

NextBatch ==
    \/ \E g \in Goroutines : GoInsert(g) /\ Enter(g) /\ Entering
    \/ \E g \in Goroutines : GoInsertLock(g) /\ InBatch
    \/ \E g \in Goroutines : GoInsertLookup(g) /\ InBatch
    \/ \E g \in Goroutines : GoInsertCopy(g) /\ InBatch
    \/ \E g \in Goroutines : GoInsertIndex(g) /\ InBatch
    \/ \E g \in Goroutines : GoInsertIds(g) /\ InBatch
    \/ \E g \in Goroutines : GoInsertData(g) /\ InBatch
    \/ \E g \in Goroutines : GoDelete(g) /\ Enter(g) /\ Entering
    \/ \E g \in Goroutines : GoDeleteLock(g) /\ InBatch
    \/ \E g \in Goroutines : GoDeleteLookup(g) /\ InBatch
    \/ \E g \in Goroutines : GoDeleteSwapIds(g) /\ InBatch
    \/ \E g \in Goroutines : GoDeleteSwapData(g) /\ InBatch
    \/ \E g \in Goroutines : GoDeleteSwapIndex(g) /\ InBatch
    \/ \E g \in Goroutines : GoDeleteTruncIds(g) /\ InBatch
    \/ \E g \in Goroutines : GoDeleteTruncData(g) /\ InBatch
    \/ \E g \in Goroutines : GoDeleteIndex(g) /\ InBatch
    \/ \E g \in Goroutines : GoUnlock(g) /\ InBatch
    \/ \E g \in Goroutines : GoReturn(g) /\ InBatch

SpecBatch == Init /\ [][NextBatch]_vars

---------------------------------------------------------------------------
(* Writers, a counter and a search together.  Two goroutines call Insert   *)
(* and Delete on identifiers of two shards, one of them calls Count as     *)
(* well, and a Search runs beside them.                                    *)

\* the goroutine that also calls Count
Counters == {2}

\* two identifiers of two shards
IDsShared == {IdA, IdV}

VectorsShared == { Vec(<<1, 0>>) }

QueriesShared == { Vec(<<1, 0>>) }

KsShared == {1}

GoInsertShared(g) == GoInsertOf(g, IDsShared, VectorsShared)

GoDeleteShared(g) == GoDeleteOf(g, IDsShared)

SearchBeginShared ==
    \E query \in QueriesShared, k \in KsShared, procs \in ProcsSearching :
        Begin("Search", query, k, procs)

NextShared ==
    \/ \E g \in Goroutines : GoInsertShared(g) /\ BesideSearch
    \/ \E g \in Goroutines : GoInsertLock(g) /\ BesideSearch
    \/ \E g \in Goroutines : GoInsertLookup(g) /\ BesideSearch
    \/ \E g \in Goroutines : GoInsertCopy(g) /\ BesideSearch
    \/ \E g \in Goroutines : GoInsertIndex(g) /\ BesideSearch
    \/ \E g \in Goroutines : GoInsertIds(g) /\ BesideSearch
    \/ \E g \in Goroutines : GoInsertData(g) /\ BesideSearch
    \/ \E g \in Goroutines : GoDeleteShared(g) /\ BesideSearch
    \/ \E g \in Goroutines : GoDeleteLock(g) /\ BesideSearch
    \/ \E g \in Goroutines : GoDeleteLookup(g) /\ BesideSearch
    \/ \E g \in Goroutines : GoDeleteTruncIds(g) /\ BesideSearch
    \/ \E g \in Goroutines : GoDeleteTruncData(g) /\ BesideSearch
    \/ \E g \in Goroutines : GoDeleteIndex(g) /\ BesideSearch
    \/ \E g \in Goroutines : GoUnlock(g) /\ BesideSearch
    \/ \E g \in Counters : GoCount(g) /\ BesideSearch
    \/ \E g \in Counters : GoCountRLock(g) /\ BesideSearch
    \/ \E g \in Counters : GoCountRead(g) /\ BesideSearch
    \/ \E g \in Counters : GoCountRUnlock(g) /\ BesideSearch
    \/ \E g \in Goroutines : GoReturn(g) /\ BesideSearch
    \/ SearchBeginShared /\ OfSearch
    \/ \E w \in DOMAIN search.workers : WorkerRLock(w) /\ OfSearch
    \/ \E w \in DOMAIN search.workers : WorkerScan(w) /\ OfSearch
    \/ \E w \in DOMAIN search.workers : WorkerRUnlock(w) /\ OfSearch
    \/ \E w \in DOMAIN search.workers : WorkerDrain(w) /\ OfSearch
    \/ SearchMerge /\ OfSearch
    \/ SearchReturn /\ OfSearch

SpecShared == Init /\ [][NextShared]_vars

---------------------------------------------------------------------------
(* Dimension beside a writer.  One goroutine calls Insert and Delete, a    *)
(* second one calls Dimension, and a Search runs beside them.              *)

NextDimension ==
    \/ \E g \in Writers : GoInsertShared(g) /\ BesideSearch
    \/ \E g \in Writers : GoInsertLock(g) /\ BesideSearch
    \/ \E g \in Writers : GoInsertLookup(g) /\ BesideSearch
    \/ \E g \in Writers : GoInsertCopy(g) /\ BesideSearch
    \/ \E g \in Writers : GoInsertIndex(g) /\ BesideSearch
    \/ \E g \in Writers : GoInsertIds(g) /\ BesideSearch
    \/ \E g \in Writers : GoInsertData(g) /\ BesideSearch
    \/ \E g \in Writers : GoDeleteShared(g) /\ BesideSearch
    \/ \E g \in Writers : GoDeleteLock(g) /\ BesideSearch
    \/ \E g \in Writers : GoDeleteLookup(g) /\ BesideSearch
    \/ \E g \in Writers : GoDeleteTruncIds(g) /\ BesideSearch
    \/ \E g \in Writers : GoDeleteTruncData(g) /\ BesideSearch
    \/ \E g \in Writers : GoDeleteIndex(g) /\ BesideSearch
    \/ \E g \in Writers : GoUnlock(g) /\ BesideSearch
    \/ \E g \in Counters : GoDimension(g) /\ BesideSearch
    \/ \E g \in Goroutines : GoReturn(g) /\ BesideSearch
    \/ SearchBeginShared /\ OfSearch
    \/ \E w \in DOMAIN search.workers : WorkerRLock(w) /\ OfSearch
    \/ \E w \in DOMAIN search.workers : WorkerScan(w) /\ OfSearch
    \/ \E w \in DOMAIN search.workers : WorkerRUnlock(w) /\ OfSearch
    \/ \E w \in DOMAIN search.workers : WorkerDrain(w) /\ OfSearch
    \/ SearchMerge /\ OfSearch
    \/ SearchReturn /\ OfSearch

SpecDimension == Init /\ [][NextDimension]_vars

---------------------------------------------------------------------------
(* Count beside a writer.  One goroutine calls Insert and Delete, a second *)
(* one calls Count; the populations that the store holds while a Count is  *)
(* running are kept as history.                                            *)

\* the number of identifiers in the idIndex maps of shards si..15
RECURSIVE IndexedFrom(_, _)
IndexedFrom(shs, si) ==
    IF si >= numShards THEN 0
    ELSE Cardinality(DOMAIN shs[si].idIndex) + IndexedFrom(shs, si + 1)

\* the population of the store at an instant, by its rows and by its index
PopulationsOf(shs) == {CountOf(shs), IndexedFrom(shs, 0)}

Counting == \E g \in Counters : calls[g].name = "Count"

\* history: a Count starts
WatchStart == watch' = [start |-> CountOf(shards), held |-> PopulationsOf(shards)]

\* history: the population after a statement of the writer
WatchStep ==
    watch' = IF Counting THEN [watch EXCEPT !.held = @ \cup PopulationsOf(shards')]
             ELSE watch

\* history: the Count has returned
WatchEnd == watch' = NoWatch

Unwatched == UNCHANGED <<dimension, op, stored, hist, deleted, search, batch, queries>>

NextCounting ==
    \/ \E g \in Writers : GoInsertShared(g) /\ WatchStep /\ Unwatched
    \/ \E g \in Writers : GoInsertLock(g) /\ WatchStep /\ Unwatched
    \/ \E g \in Writers : GoInsertLookup(g) /\ WatchStep /\ Unwatched
    \/ \E g \in Writers : GoInsertCopy(g) /\ WatchStep /\ Unwatched
    \/ \E g \in Writers : GoInsertIndex(g) /\ WatchStep /\ Unwatched
    \/ \E g \in Writers : GoInsertIds(g) /\ WatchStep /\ Unwatched
    \/ \E g \in Writers : GoInsertData(g) /\ WatchStep /\ Unwatched
    \/ \E g \in Writers : GoDeleteShared(g) /\ WatchStep /\ Unwatched
    \/ \E g \in Writers : GoDeleteLock(g) /\ WatchStep /\ Unwatched
    \/ \E g \in Writers : GoDeleteLookup(g) /\ WatchStep /\ Unwatched
    \/ \E g \in Writers : GoDeleteTruncIds(g) /\ WatchStep /\ Unwatched
    \/ \E g \in Writers : GoDeleteTruncData(g) /\ WatchStep /\ Unwatched
    \/ \E g \in Writers : GoDeleteIndex(g) /\ WatchStep /\ Unwatched
    \/ \E g \in Writers : GoUnlock(g) /\ WatchStep /\ Unwatched
    \/ \E g \in Writers : GoReturn(g) /\ WatchStep /\ Unwatched
    \/ \E g \in Counters : GoCount(g) /\ WatchStart /\ Unwatched
    \/ \E g \in Counters : GoCountRLock(g) /\ UNCHANGED watch /\ Unwatched
    \/ \E g \in Counters : GoCountRead(g) /\ UNCHANGED watch /\ Unwatched
    \/ \E g \in Counters : GoCountRUnlock(g) /\ UNCHANGED watch /\ Unwatched
    \/ \E g \in Counters : GoReturn(g) /\ WatchEnd /\ Unwatched

SpecCounting == Init /\ [][NextCounting]_vars

---------------------------------------------------------------------------
(* A Search of several workers beside Inserts.  One goroutine calls Insert *)
(* and no Delete; the Search runs with two or three workers, and the       *)
(* population of the store when it starts is kept as history.              *)

ProcsBarrier == {2, 3}

\* k and GOMAXPROCS of the Searches
ArgsBarrier == {<<1, 2>>, <<2, 2>>, <<2, 3>>}

\* history: the identifiers in the store when the Search starts
SearchWatched == watch' = [start |-> IndexedFrom(shards, 0), held |-> {}]

Started == UNCHANGED <<dimension, op, stored, hist, deleted, batch, queries>>

SearchBeginBarrier ==
    \E query \in QueriesSearching, args \in ArgsBarrier :
        Begin("Search", query, args[1], args[2])

NextBarrier ==
    \/ \E g \in Writers : GoInsertShared(g) /\ BesideSearch
    \/ \E g \in Writers : GoInsertLock(g) /\ BesideSearch
    \/ \E g \in Writers : GoInsertLookup(g) /\ BesideSearch
    \/ \E g \in Writers : GoInsertCopy(g) /\ BesideSearch
    \/ \E g \in Writers : GoInsertIndex(g) /\ BesideSearch
    \/ \E g \in Writers : GoInsertIds(g) /\ BesideSearch
    \/ \E g \in Writers : GoInsertData(g) /\ BesideSearch
    \/ \E g \in Writers : GoUnlock(g) /\ BesideSearch
    \/ \E g \in Writers : GoReturn(g) /\ BesideSearch
    \/ SearchBeginBarrier /\ SearchWatched /\ Started
    \/ \E w \in DOMAIN search.workers : WorkerRLock(w) /\ OfSearch
    \/ \E w \in DOMAIN search.workers : WorkerScan(w) /\ OfSearch
    \/ \E w \in DOMAIN search.workers : WorkerRUnlock(w) /\ OfSearch
    \/ \E w \in DOMAIN search.workers : WorkerDrain(w) /\ OfSearch
    \/ SearchMerge /\ OfSearch
    \/ SearchReturn /\ WatchEnd /\ Started

SpecBarrier == Init /\ [][NextBarrier]_vars

---------------------------------------------------------------------------
(* Two writers and a Search on one shard.  Two goroutines call Insert and  *)
(* Delete with one identifier, copying float by float, and a               *)
(* Search of one worker scans beside them.  As history, each call is       *)
(* applied as a whole to a map of identifiers to payloads at the instant   *)
(* it releases the write lock: the calls in the order of these instants    *)
(* are a sequential run, and each instant lies between the start and the   *)
(* return of its call.                                                     *)

\* history: the call of goroutine g takes effect as a whole
Linearize(g) ==
    stored' = IF calls[g].name = "Insert"
              THEN MapPut(stored, calls[g].v.ID, calls[g].v.Data)
              ELSE IF calls[g].err = "nil" THEN MapDelete(stored, calls[g].v.ID)
              ELSE stored

\* the statements inside a call
InCall == UNCHANGED <<dimension, op, stored, hist, deleted, search, batch, queries, watch>>

\* the statement that ends the critical section of a call
Leaving == UNCHANGED <<dimension, op, hist, deleted, search, batch, queries, watch>>

\* the identifier that both writers insert and delete
IDsLinear == {IdA}

GoInsertLinear(g) == GoInsertOf(g, IDsLinear, VectorsSearching)

GoDeleteLinear(g) == GoDeleteOf(g, IDsLinear)

SearchBeginLinear == Begin("Search", Vec(<<1, 0>>), 2, 1)

NextLinear ==
    \/ \E g \in Goroutines : GoInsertLinear(g) /\ InCall
    \/ \E g \in Goroutines : GoInsertLock(g) /\ InCall
    \/ \E g \in Goroutines : GoInsertLookup(g) /\ InCall
    \/ \E g \in Goroutines : GoInsertCopyOne(g) /\ InCall
    \/ \E g \in Goroutines : GoInsertIndex(g) /\ InCall
    \/ \E g \in Goroutines : GoInsertIds(g) /\ InCall
    \/ \E g \in Goroutines : GoInsertData(g) /\ InCall
    \/ \E g \in Goroutines : GoDeleteLinear(g) /\ InCall
    \/ \E g \in Goroutines : GoDeleteLock(g) /\ InCall
    \/ \E g \in Goroutines : GoDeleteLookup(g) /\ InCall
    \/ \E g \in Goroutines : GoDeleteTruncIds(g) /\ InCall
    \/ \E g \in Goroutines : GoDeleteTruncData(g) /\ InCall
    \/ \E g \in Goroutines : GoDeleteIndex(g) /\ InCall
    \/ \E g \in Goroutines : GoUnlock(g) /\ Linearize(g) /\ Leaving
    \/ \E g \in Goroutines : GoReturn(g) /\ InCall
    \/ SearchBeginLinear /\ OfSearch
    \/ \E w \in DOMAIN search.workers : WorkerRLock(w) /\ OfSearch
    \/ \E w \in DOMAIN search.workers : WorkerScan(w) /\ OfSearch
    \/ \E w \in DOMAIN search.workers : WorkerRUnlock(w) /\ OfSearch
    \/ \E w \in DOMAIN search.workers : WorkerDrain(w) /\ OfSearch
    \/ SearchMerge /\ OfSearch
    \/ SearchReturn /\ OfSearch

SpecLinear == Init /\ [][NextLinear]_vars

---------------------------------------------------------------------------
(* Two Searches beside Inserts.  One goroutine calls Insert with           *)
(* identifiers of two shards, and two callers run a Search of one worker   *)
(* each, statement by statement.                                           *)

QueryAt(q, w, pc) ==
    /\ queries[q].pc = "wait"
    /\ w \in DOMAIN queries[q].workers
    /\ queries[q].workers[w].pc = pc

\* Search up to wg.Wait(): the two checks, nWorkers, and the workers started
QueryBegin(q, query, k, procs) ==
    /\ queries[q].pc = "idle"
    /\ queries' = [queries EXCEPT ![q] =
         IF Len(query) # dimension
         THEN Searching("return", "Search", query, k, 0, << >>, NoResults,
                        "ErrDimensionMismatch", {}, << >>)
         ELSE IF k <= 0
         THEN Searching("return", "Search", query, k, 0, << >>, NoResults, "nil", {}, << >>)
         ELSE LET nWorkers == nWorkersOf(procs)
              IN  Searching("wait", "Search", query, k, nWorkers,
                            [w \in 0 .. nWorkers - 1 |-> NewWorker(w, nWorkers)],
                            NoResults, "nil", {}, << >>)]
    /\ UNCHANGED <<shards, mu, calls>>

\* k at least the population
KsQueries == {2}

QueryBeginShared(q) ==
    \E query \in QueriesShared, k \in KsQueries, procs \in ProcsSearching :
        QueryBegin(q, query, k, procs)

\* sh.mu.RLock()
QueryRLock(q, w) ==
    /\ QueryAt(q, w, "rlock")
    /\ LET si == queries[q].workers[w].si
       IN  /\ RLock(si)
           /\ queries' = [queries EXCEPT ![q].workers[w].pc = "scan",
                                         ![q].workers[w].held = @ \cup {si}]
    /\ UNCHANGED <<shards, calls>>

\* the loop over the rows of the shard
QueryScan(q, w) ==
    /\ QueryAt(q, w, "scan")
    /\ queries' = [queries EXCEPT
                      ![q].workers[w].h =
                          ScanShard(@, shards[queries[q].workers[w].si], "euclidean",
                                    queries[q].query, queries[q].k, dimension),
                      ![q].workers[w].pc = "runlock"]
    /\ UNCHANGED <<shards, mu, calls>>

\* the next shard of the worker's range with the read lock kept
QueryRUnlockKept(q, w) ==
    /\ QueryAt(q, w, "runlock")
    /\ LET si == queries[q].workers[w].si
       IN  queries' = [queries EXCEPT
                          ![q].workers[w].si = si + 1,
                          ![q].workers[w].pc = IF si + 1 < queries[q].workers[w].end
                                               THEN "rlock" ELSE "drain"]
    /\ UNCHANGED <<shards, mu, calls>>

\* sh.mu.RUnlock(), and the next shard of the worker's range
QueryRUnlock(q, w) ==
    /\ QueryAt(q, w, "runlock")
    /\ LET si == queries[q].workers[w].si
       IN  /\ RUnlock(si)
           /\ queries' = [queries EXCEPT
                             ![q].workers[w].held = @ \ {si},
                             ![q].workers[w].si = si + 1,
                             ![q].workers[w].pc = IF si + 1 < queries[q].workers[w].end
                                                  THEN "rlock" ELSE "drain"]
    /\ UNCHANGED <<shards, calls>>

\* the worker's results, popped from its heap into workerResults; wg.Done()
QueryDrain(q, w) ==
    /\ QueryAt(q, w, "drain")
    /\ queries' = [queries EXCEPT ![q].workers[w].results = Drain(queries[q].workers[w].h),
                                  ![q].workers[w].h = << >>,
                                  ![q].workers[w].pc = "done"]
    /\ UNCHANGED <<shards, mu, calls>>

\* wg.Wait() has returned: the merge and the final extraction
QueryMerge(q) ==
    /\ queries[q].pc = "wait"
    /\ \A w \in DOMAIN queries[q].workers : queries[q].workers[w].pc = "done"
    /\ LET wrs == [w \in DOMAIN queries[q].workers |-> queries[q].workers[w].results]
           h   == MergeAll(<< >>, wrs, 0, queries[q].nWorkers, queries[q].k)
       IN  queries' = [queries EXCEPT ![q].res = ExtractSqrt(h), ![q].pc = "return"]
    /\ UNCHANGED <<shards, mu, calls>>

\* the caller takes the results
QueryReturn(q) ==
    /\ queries[q].pc = "return"
    /\ queries' = [queries EXCEPT ![q] = NoSearch]
    /\ UNCHANGED <<shards, mu, calls>>

\* the statements of a Search change nothing but the locks and the Search
OfQueries == UNCHANGED <<dimension, op, stored, hist, deleted, search, batch, watch>>

NextQueries ==
    \/ \E g \in Writers : GoInsertShared(g) /\ BesideSearch
    \/ \E g \in Writers : GoInsertLock(g) /\ BesideSearch
    \/ \E g \in Writers : GoInsertLookup(g) /\ BesideSearch
    \/ \E g \in Writers : GoInsertCopy(g) /\ BesideSearch
    \/ \E g \in Writers : GoInsertIndex(g) /\ BesideSearch
    \/ \E g \in Writers : GoInsertIds(g) /\ BesideSearch
    \/ \E g \in Writers : GoInsertData(g) /\ BesideSearch
    \/ \E g \in Writers : GoUnlock(g) /\ BesideSearch
    \/ \E g \in Writers : GoReturn(g) /\ BesideSearch
    \/ \E q \in Queriers : QueryBeginShared(q) /\ OfQueries
    \/ \E q \in Queriers : \E w \in DOMAIN queries[q].workers : QueryRLock(q, w) /\ OfQueries
    \/ \E q \in Queriers : \E w \in DOMAIN queries[q].workers : QueryScan(q, w) /\ OfQueries
    \/ \E q \in Queriers : \E w \in DOMAIN queries[q].workers : QueryRUnlock(q, w) /\ OfQueries
    \/ \E q \in Queriers : \E w \in DOMAIN queries[q].workers : QueryDrain(q, w) /\ OfQueries
    \/ \E q \in Queriers : QueryMerge(q) /\ OfQueries
    \/ \E q \in Queriers : QueryReturn(q) /\ OfQueries

SpecQueries == Init /\ [][NextQueries]_vars

---------------------------------------------------------------------------
(* Claims about a search beside a writer.                                  *)

\* the error a search of this query returns
SearchError(query) ==
    IF Len(query) # dimension THEN "ErrDimensionMismatch" ELSE "nil"

\* a writer is between Lock and Unlock
WriterInsideSome == \E g \in Writers : \E si \in ShardIndices : WriterInside(g, si)

\* C13: Search and SearchCosine return ErrDimensionMismatch exactly when the
\* length of the query is not the dimension, whatever k is (the length is
\* checked before k), and return no other error, whatever a writer does
\* meanwhile.
C13_SearchError ==
    search.pc = "return" => search.err = SearchError(search.query)

\* a query of the wrong length with k = 0 has returned the error, a writer
\* being inside a shard
C13_Witness ==
    /\ search.pc = "return"
    /\ Len(search.query) # dimension
    /\ search.k = 0
    /\ search.err = "ErrDimensionMismatch"
    /\ WriterInsideSome

\* a search with a query of the right length and k <= 0 starts no worker and
\* takes no lock: it is at its return, with no result and no error
NoWorkerForZeroK ==
    (search.pc # "idle" /\ Len(search.query) = dimension /\ search.k <= 0) =>
        /\ search.pc = "return"
        /\ search.workers = << >>
        /\ search.rlocks = << >>
        /\ search.res = NoResults
        /\ search.err = "nil"

\* the step that starts such a search leaves every lock as it is, whoever
\* holds it
ZeroKStep ==
    (search.pc = "idle" /\ search'.pc # "idle" /\ search'.k <= 0) =>
        search'.pc = "return" /\ mu' = mu /\ shards' = shards

\* a search with k >= 1 whose workers found every shard empty returns no
\* result and no error
EmptyStoreSearch ==
    (search.pc = "return" /\ search.k >= 1 /\ search.err = "nil" /\ search.seen = {}) =>
        search.res = NoResults

\* C14: a query of the right length with k <= 0 returns an empty result and
\* no error without taking a shard lock or starting a worker, so a writer
\* cannot hold it up; a search with k >= 1 of an empty store returns an
\* empty result and no error.
C14_EmptyResults ==
    [](NoWorkerForZeroK /\ EmptyStoreSearch) /\ [][ZeroKStep]_vars

\* a search with k = 0 has returned while a writer holds the lock of a shard
\* with a row in it
C14_Witness ==
    /\ search.pc = "return"
    /\ Len(search.query) = dimension
    /\ search.k = 0
    /\ search.res = NoResults
    /\ \E g \in Writers :
          /\ WriterInside(g, calls[g].si)
          /\ mu[calls[g].si].writer
          /\ Len(shards[calls[g].si].ids) > 0

\* the distance a search returns for a payload
FinalDistance(name, query, vec) ==
    IF name = "Search" THEN sqrt32(Dist("euclidean", query, vec))
    ELSE Dist("cosine", query, vec)

\* every row of the shard holds a payload as some Insert passed it
WholeRows(sh) ==
    /\ Len(sh.data) = Len(sh.ids) * dimension
    /\ \A i \in 0 .. Len(sh.ids) - 1 :
          Slice(sh.data, i * dimension, (i + 1) * dimension) \in VectorsSearching

\* a worker between RLock and RUnlock of a shard finds whole payloads there
NoTornRead ==
    \A w \in DOMAIN search.workers :
        search.workers[w].pc \in {"scan", "runlock"} =>
            WholeRows(shards[search.workers[w].si])

\* a returned distance is the distance to a payload as some Insert passed it
WholeDistances ==
    (search.pc = "return" /\ search.err = "nil") =>
        \A i \in DOMAIN search.res :
            \E vec \in VectorsSearching :
                search.res[i].Distance = FinalDistance(search.name, search.query, vec)

\* C16: no worker reads a payload that is partly written, although an upsert
\* and the copy of a delete write the D floats of a row one after the
\* other; every returned distance is the distance to a whole payload.
C16_NoPartialPayload == NoTornRead /\ WholeDistances

\* an upsert has written the first float of a row only, and the worker of a
\* search is at the read lock of that shard
C16_Witness ==
    \E g \in Writers : \E w \in DOMAIN search.workers :
        /\ At(g, "Insert", "copy")
        /\ calls[g].j = 1
        /\ ~WholeRows(shards[calls[g].si])
        /\ search.workers[w].pc = "rlock"
        /\ search.workers[w].si = calls[g].si

\* a result stands for a row a worker found as it took the read lock
Seen(r, metric) ==
    \E row \in search.seen :
        r.ID = row[1] /\ r.Distance = Dist(metric, search.query, row[2])

SeenFinal(r) ==
    \E row \in search.seen :
        r.ID = row[1] /\ r.Distance = FinalDistance(search.name, search.query, row[2])

\* while a worker holds the read lock of a shard, the rows of the shard are
\* the rows it found as it took the lock
StableUnderRead ==
    \A w \in DOMAIN search.workers :
        search.workers[w].pc \in {"scan", "runlock"} =>
            /\ Len(shards[search.workers[w].si].data) =
                   Len(shards[search.workers[w].si].ids) * dimension
            /\ RowsOf(shards[search.workers[w].si]) \subseteq search.seen

\* what a worker keeps in its heap and in its results are such rows
WorkersSeen ==
    \A w \in DOMAIN search.workers :
        /\ \A i \in DOMAIN search.workers[w].h : Seen(search.workers[w].h[i], Metric)
        /\ \A i \in DOMAIN search.workers[w].results :
              Seen(search.workers[w].results[i], Metric)

\* and so is every result returned
ResultsSeen ==
    (search.pc = "return" /\ search.err = "nil") =>
        \A i \in DOMAIN search.res : SeenFinal(search.res[i])

\* C17: whatever inserts, upserts and deletes run beside it, every
\* (identifier, distance) a search returns is an identifier that was in the
\* store at an instant between the start and the return of the call, with
\* the distance of the payload it had at that instant.
C17_ResultsWereResident == StableUnderRead /\ WorkersSeen /\ ResultsSeen

\* a search returns an identifier that a Delete has removed meanwhile
C17_Witness ==
    /\ search.pc = "return"
    /\ \E i \in DOMAIN search.res :
          ~InShard(shards[HashMod16[search.res[i].ID]], search.res[i].ID)

\* a step of the search leaves the shards as they are
SearchReadsOnly == search' # search => shards' = shards

\* a worker holds the read lock of one shard at most, and the read locks
\* held are those of the workers
OneReadLock ==
    /\ \A w \in DOMAIN search.workers : Cardinality(search.workers[w].held) <= 1
    /\ search.pc = "wait" =>
          \A si \in ShardIndices :
              mu[si].readers =
                  Cardinality({w \in DOMAIN search.workers : si \in search.workers[w].held})
    /\ search.pc # "wait" => \A si \in ShardIndices : mu[si].readers = 0

\* no shard is read-locked twice by a call, and each has been once at the
\* return
EachShardOnce ==
    /\ search.pc = "wait" => \A si \in ShardIndices : search.rlocks[si] <= 1
    /\ (search.pc = "return" /\ search.err = "nil" /\ search.k >= 1) =>
          \A si \in ShardIndices : search.rlocks[si] = 1

---------------------------------------------------------------------------
(* Claims about writers, a counter and a search together.                  *)

\* the goroutines between Lock and Unlock of shard si
WritersInside(si) == {g \in Goroutines : WriterInside(g, si)}

\* the goroutines between RLock and RUnlock of shard si in Count
CountersInside(si) ==
    {g \in Goroutines : /\ calls[g].name = "Count"
                        /\ calls[g].si = si
                        /\ calls[g].pc \in {"read", "runlock"}}

\* the workers of the search between RLock and RUnlock of shard si
WorkersInside(si) ==
    {w \in DOMAIN search.workers : search.workers[w].si = si /\
                                   search.workers[w].pc \in {"scan", "runlock"}}

\* C18: in every state and for every shard, a writer (Insert or Delete)
\* that holds the write lock of the shard is alone in it: no other writer,
\* no Count and no search worker is inside; readers may be inside together.
C18_WriterAlone ==
    \A si \in ShardIndices :
        /\ Cardinality(WritersInside(si)) <= 1
        /\ mu[si].writer <=> WritersInside(si) # {}
        /\ WritersInside(si) # {} => CountersInside(si) = {} /\ WorkersInside(si) = {}
        /\ mu[si].readers = Cardinality(CountersInside(si)) + Cardinality(WorkersInside(si))

\* Count and a search worker are inside one shard together, a writer
\* waiting for its lock
C18_Witness ==
    \E si \in ShardIndices : \E g \in Goroutines :
        /\ CountersInside(si) # {}
        /\ WorkersInside(si) # {}
        /\ mu[si].readers = 2
        /\ calls[g].name \in {"Insert", "Delete"}
        /\ calls[g].pc = "lock"
        /\ calls[g].si = si

\* nobody is inside shard si
Nobody(si) == WritersInside(si) = {} /\ CountersInside(si) = {} /\ WorkersInside(si) = {}

\* a writer past its checks is at the shard of its identifier
WriterShard ==
    \A g \in Goroutines :
        (calls[g].name \in {"Insert", "Delete"} /\ calls[g].pc # "return") =>
            calls[g].si = HashMod16[calls[g].v.ID]

\* a step of Insert or of Delete leaves the other 15 shards and their locks
\* as they are
OtherShardsFrame ==
    \A g \in Goroutines :
        (calls'[g] # calls[g] /\ calls[g].name \in {"Insert", "Delete"}) =>
            \A si \in ShardIndices \ {HashMod16[calls[g].v.ID]} :
                shards'[si] = shards[si] /\ mu'[si] = mu[si]

\* the start of a call changes no shard and no lock
StartFrame ==
    \A g \in Goroutines :
        (calls[g].pc = "idle" /\ calls'[g] # calls[g]) => shards' = shards /\ mu' = mu

\* a writer waiting for a shard nobody is inside can take its lock, and a
\* worker waiting for a shard no writer is inside can take its read lock,
\* whoever holds the locks of the other shards
NotBlockedElsewhere ==
    /\ \A g \in Goroutines :
          (At(g, "Insert", "lock") /\ Nobody(calls[g].si)) => ENABLED GoInsertLock(g)
    /\ \A g \in Goroutines :
          (At(g, "Delete", "lock") /\ Nobody(calls[g].si)) => ENABLED GoDeleteLock(g)
    /\ \A w \in DOMAIN search.workers :
          (WorkerAt(w, "rlock") /\ WritersInside(search.workers[w].si) = {}) =>
              ENABLED WorkerRLock(w)

\* C19: Insert(v) and Delete(id) take the write lock of the shard
\* fnv1a32(id) mod 16 only and change that shard only; the other 15 shards
\* stay as they are, and an Insert, a Delete or a worker at another shard
\* does not wait for that writer.
C19_OneShardWritten ==
    [](WriterShard /\ NotBlockedElsewhere) /\ [][OtherShardsFrame /\ StartFrame]_vars

\* two writers are inside two shards, a row appended by one of them, and the
\* worker of a search is inside a third
C19_Witness ==
    \E g, h \in Goroutines : \E w \in DOMAIN search.workers :
        /\ g # h
        /\ WriterInside(g, calls[g].si)
        /\ WriterInside(h, calls[h].si)
        /\ calls[g].si # calls[h].si
        /\ At(g, "Insert", "data")
        /\ search.workers[w].pc = "scan"

---------------------------------------------------------------------------
(* Claims about writers in batches.                                        *)

\* the goroutines are idle again after a batch of calls of distinct
\* identifiers that returned no error at once
BatchDone == Quiescent /\ batch.n > 0 /\ batch.distinct /\ ~batch.failed

\* the batch was of Inserts, and Count() has grown by their number
InsertsCounted ==
    (BatchDone /\ batch.deletes = {}) =>
        /\ CountOf(shards) = batch.before + Cardinality(batch.inserts)
        /\ batch.inserts \subseteq ResidentIDs

\* the batch was of Deletes of identifiers that were in the store, and
\* Count() has shrunk by their number
DeletesCounted ==
    (BatchDone /\ batch.inserts = {} /\ batch.deletes \subseteq batch.resident) =>
        /\ CountOf(shards) = batch.before - Cardinality(batch.deletes)
        /\ batch.deletes \cap ResidentIDs = {}

\* C15 as it is stated: n concurrent Inserts of pairwise distinct
\* identifiers make Count() grow by n, and m concurrent Deletes of pairwise
\* distinct resident identifiers make it shrink by m, once all have returned.
C15_AsStated == InsertsCounted /\ DeletesCounted

\* C15: in every interleaving of concurrent writers, once all have returned,
\* n Inserts of pairwise distinct identifiers that were not in the store
\* have made Count() grow by n, and m Deletes of pairwise distinct
\* identifiers that were in the store have made it shrink by m.
C15_BatchCounts ==
    /\ (batch.inserts \cap batch.resident = {}) => InsertsCounted
    /\ DeletesCounted

\* three Inserts of three identifiers, some of them running at the same
\* time, have returned and Count() is 3
C15_Witness ==
    /\ BatchDone
    /\ batch.overlap
    /\ batch.inserts = IDs
    /\ batch.deletes = {}
    /\ batch.before = 0
    /\ CountOf(shards) = 3

---------------------------------------------------------------------------
(* Claims about Count, Dimension and the distances of one caller.          *)

\* the sum of the populations of the shards, by their indices
RECURSIVE PopulationsFrom(_)
PopulationsFrom(si) ==
    IF si >= numShards THEN 0
    ELSE Cardinality(DOMAIN shards[si].idIndex) + PopulationsFrom(si + 1)

\* Count() returns the number of the identifiers inserted and not deleted
\* since, which is the sum of the populations of the 16 shards
CountReturned ==
    op.name = "Count" => op.n = Population /\ op.n = PopulationsFrom(0)

\* a new store counts 0
NewStoreEmpty == op.name = "NewVectorStore" => CountOf(shards) = 0 /\ Population = 0

\* an upsert, and an Insert or a Delete that returns an error, leave the
\* count as it is
CountKept ==
    (/\ op'.name \in {"Insert", "Delete"}
     /\ op.name = "idle"
     /\ op'.err # "nil" \/ (op'.name = "Insert" /\ op'.exists)) =>
        CountOf(shards') = CountOf(shards)

\* Count() changes nothing
CountReadsOnly ==
    (op.name = "idle" /\ op'.name = "Count") =>
        shards' = shards /\ dimension' = dimension /\ mu' = mu /\ stored' = stored

\* C21: with no call running, Count() is the number of distinct identifiers
\* inserted and not deleted since: 0 for a new store, unchanged by upserts
\* and by failed Inserts and Deletes; it is the sum of the populations of
\* the 16 shards, and Count() changes no state.
C21_CountIsPopulation ==
    [](CountReturned /\ NewStoreEmpty) /\ [][CountKept /\ CountReadsOnly]_vars

\* Count() has returned 3 with three identifiers in two shards
C21_Witness ==
    /\ op.name = "Count"
    /\ op.n = 3
    /\ Residents = IDs
    /\ Len(shards[HashMod16[IdA]].ids) = 2

---------------------------------------------------------------------------
(* Claims about Dimension beside a writer.  In the concurrent runs op      *)
(* stays the record of the call of NewVectorStore.                         *)

\* NewVectorStore(d) has made 16 empty shards, and Count() is 0
NewStore ==
    /\ op.name = "NewVectorStore"
    /\ DOMAIN shards = 0 .. 15
    /\ \A si \in DOMAIN shards :
          shards[si].ids = << >> /\ shards[si].data = << >> /\ DOMAIN shards[si].idIndex = {}
    /\ CountOf(shards) = 0

\* the dimension is the argument of NewVectorStore, and so is every result
\* of Dimension()
DimensionReturned ==
    /\ dimension = op.n
    /\ \A g \in Goroutines : calls[g].name = "Dimension" => calls[g].total = op.n

\* Dimension() can return whoever holds a lock
DimensionNotBlocked ==
    \A g \in Counters : calls[g].pc = "idle" => ENABLED GoDimension(g)

\* no step changes the dimension, and the step of Dimension() takes no lock
DimensionStep ==
    /\ dimension' = dimension
    /\ \A g \in Goroutines :
          (calls[g].pc = "idle" /\ calls'[g].name = "Dimension") =>
              mu' = mu /\ shards' = shards

\* C29: the dimension of the store is fixed by NewVectorStore: Dimension()
\* returns the value passed to it in every state, no operation changes it,
\* and Dimension() takes no lock and so returns while writers hold shard
\* locks; a new store has 16 empty shards and Count() = 0.
C29_DimensionFixed ==
    NewStore /\ [](DimensionReturned /\ DimensionNotBlocked) /\ [][DimensionStep]_vars

\* Dimension() has returned 2 while a writer holds the lock of a shard it
\* has appended a row to
C29_Witness ==
    \E g \in Counters : \E h \in Writers :
        /\ calls[g].name = "Dimension"
        /\ calls[g].pc = "return"
        /\ calls[g].total = 2
        /\ At(h, "Insert", "unlock")
        /\ mu[calls[h].si].writer
        /\ Len(shards[calls[h].si].ids) = 1

\* ceil(16 / W)
CeilShards(W) == CHOOSE c \in 1 .. numShards : c * W >= numShards /\ (c - 1) * W < numShards

\* the shard indices [w * ceil(16/W), min(16, (w+1) * ceil(16/W))) of every
\* worker w of W
Groups ==
    [W \in 1 .. numShards |->
        [w \in 0 .. W - 1 |->
            {si \in 0 .. numShards - 1 :
                w * CeilShards(W) <= si /\ si < Min(numShards, (w + 1) * CeilShards(W))}]]

\* the shards every worker w of W goes through in its loop
Ranges ==
    [W \in 1 .. numShards |->
        [w \in 0 .. W - 1 |->
            {si \in 0 .. numShards - 1 : workerStart(w, W) <= si /\ si < workerEnd(w, W)}]]

\* the groups of the W workers are contiguous, disjoint and cover the shards
Partitioned ==
    [W \in 1 .. numShards |->
        /\ \A si \in 0 .. numShards - 1 :
              Cardinality({w \in 0 .. W - 1 : si \in Groups[W][w]}) = 1
        /\ \A w \in 0 .. W - 1 : \A x \in Groups[W][w] : \A y \in Groups[W][w] :
              \A z \in x .. y : z \in Groups[W][w]]

\* every group but the last has ceil(16/W) shards
FullButLast ==
    [W \in 1 .. numShards |->
        \A w \in 0 .. W - 2 : Cardinality(Groups[W][w]) = CeilShards(W)]

\* a group that ends at or before shard 15 has ceil(16/W) shards, no group
\* has more, and a group that would start after shard 15 is empty
FullUntilEnd ==
    [W \in 1 .. numShards |->
        \A w \in 0 .. W - 1 :
            /\ Cardinality(Groups[W][w]) <= CeilShards(W)
            /\ (w + 1) * CeilShards(W) <= numShards =>
                  Cardinality(Groups[W][w]) = CeilShards(W)
            /\ w * CeilShards(W) >= numShards => Groups[W][w] = {}]

\* a search has returned that ran with W workers
SearchedBy(W) ==
    /\ Searched("Search") \/ Searched("SearchCosine")
    /\ nWorkersOf(op.procs) = W

---------------------------------------------------------------------------
(* Claims about the distances that Search reports.                         *)

\* the squared distance of the query of the call to the payload stored under id
SquaredTo(id) == EuclideanDistanceSquared(op.data, stored[id])

\* every result carries the square root, taken once, of the squared distance
\* of its payload
RootOfSquared ==
    \A i \in DOMAIN op.res :
        /\ op.res[i].ID \in Residents
        /\ op.res[i].Distance = sqrt32(SquaredTo(op.res[i].ID))

\* the results are in the order of the squared distances, and no resident
\* left out is closer by squared distance than one returned
OrderOfSquared ==
    /\ \A i \in DOMAIN op.res : \A j \in DOMAIN op.res :
           i < j => SquaredTo(op.res[i].ID) <= SquaredTo(op.res[j].ID)
    /\ \A id \in Residents : \A i \in DOMAIN op.res :
           id \notin ResultIDs(op.res) => SquaredTo(id) >= SquaredTo(op.res[i].ID)

\* the payload [3, 4] is reported at 5 from the query [0, 0], not at 25
ThreeFourAtFive ==
    op.data = Vec(<<0, 0>>) =>
        \A i \in DOMAIN op.res :
            stored[op.res[i].ID] = Vec(<<3, 4>>) =>
                op.res[i].Distance = F(5) /\ op.res[i].Distance # F(25)

(* C26: Search returns true Euclidean distances: the candidates are        *)
(* compared by squared distance and the square root is applied once to     *)
(* each result at the final extraction, so the payload [3, 4] queried with *)
(* [0, 0] is reported at distance 5, not 25, and the order of the results  *)
(* is the order by squared distance.                                       *)
C26_TrueDistances ==
    Searched("Search") => RootOfSquared /\ OrderOfSquared /\ ThreeFourAtFive

\* the query [0, 0] finds [3, 4] at 5 behind [1, 0] at 1
C26_Witness ==
    /\ Searched("Search")
    /\ op.data = Vec(<<0, 0>>)
    /\ Len(op.res) = 2
    /\ stored[op.res[1].ID] = Vec(<<1, 0>>) /\ op.res[1].Distance = F(1)
    /\ stored[op.res[2].ID] = Vec(<<3, 4>>) /\ op.res[2].Distance = F(5)
    /\ SquaredTo(op.res[2].ID) = F(25)

---------------------------------------------------------------------------
(* Claims about Count beside a writer.                                     *)

\* the read locks are those of the shard a Count is at, one at a time
OneShardCounted ==
    \A si \in ShardIndices :
        /\ mu[si].readers <= 1
        /\ mu[si].readers = 1 =>
              \E g \in Counters :
                  /\ calls[g].name = "Count" /\ calls[g].pc \in {"read", "runlock"}
                  /\ calls[g].si = si

\* a Count adds the rows of the shard whose read lock it holds, with no
\* writer inside that shard
CountReadStep ==
    \A g \in Counters :
        (At(g, "Count", "read") /\ calls'[g].pc = "runlock") =>
            LET si == calls[g].si
            IN  /\ mu[si].readers = 1 /\ ~mu[si].writer
                /\ Bijection(shards[si])
                /\ calls'[g].total = calls[g].total + Cardinality(DOMAIN shards[si].idIndex)
                /\ shards' = shards

\* a Count starts at shard 0 and goes on to the next shard, up to shard 15
CountOrderStep ==
    \A g \in Counters :
        /\ (calls[g].pc = "idle" /\ calls'[g].name = "Count") =>
               calls'[g].si = 0 /\ calls'[g].total = 0
        /\ (At(g, "Count", "runlock") /\ calls'[g] # calls[g]) =>
               /\ calls'[g].si = calls[g].si + 1
               /\ calls'[g].pc = "return" <=> calls[g].si = numShards - 1

(* C22: Count() reads the population of each shard under the read lock of  *)
(* that shard, one shard at a time from shard 0 to shard 15, so with a     *)
(* writer running beside it the value it returns need not be a population  *)
(* that the store held at an instant of the call: a delete in a shard      *)
(* already counted and an insert in a shard not yet counted make it return *)
(* a number the store never held.                                          *)
C22_CountShardByShard == []OneShardCounted /\ [][CountReadStep /\ CountOrderStep]_vars

\* a Count returns 2 from a store that held one identifier or none at every
\* instant since the Count started
C22_Witness ==
    \E g \in Counters :
        /\ At(g, "Count", "return")
        /\ calls[g].total = 2
        /\ watch.held = {0, 1}
        /\ calls[g].total \notin watch.held

---------------------------------------------------------------------------
(* Claims about a Search of several workers.                               *)

\* a worker that has finished: its results are stored, it holds no lock
Finished(wk) == wk.pc = "done" /\ wk.held = {} /\ wk.h = << >>

\* the Search starts W = min(GOMAXPROCS, 16) workers
SpawnStep ==
    (search.pc = "idle" /\ search'.pc = "wait") =>
        /\ \E procs \in ProcsBarrier : search'.nWorkers = Min(procs, numShards)
        /\ DOMAIN search'.workers = 0 .. search'.nWorkers - 1
        /\ \A w \in DOMAIN search'.workers :
               /\ search'.workers[w].results = NoResults
               /\ search'.workers[w].held = {}

\* the merge starts when every worker has finished, and takes their results
MergeStep ==
    (search.pc = "wait" /\ search'.pc = "return") =>
        /\ \A w \in DOMAIN search.workers : Finished(search.workers[w])
        /\ search'.workers = search.workers
        /\ \A i \in DOMAIN search'.res :
               \E w \in DOMAIN search.workers :
                   \E j \in DOMAIN search.workers[w].results :
                       search.workers[w].results[j].ID = search'.res[i].ID

\* until every worker has finished the Search has no results
NoResultsBefore ==
    (search.pc = "wait" /\ \E w \in DOMAIN search.workers : ~Finished(search.workers[w]))
        => search.res = NoResults /\ search'.pc # "return" /\ search'.pc # "idle"

\* a Search that returns or has returned has no worker running and no read
\* lock held
Joined ==
    search.pc \in {"return", "idle"} =>
        /\ \A w \in DOMAIN search.workers : Finished(search.workers[w])
        /\ \A si \in ShardIndices : mu[si].readers = 0

(* C25: Search is synchronous with a barrier: it starts W = min(worker     *)
(* budget, 16) workers, does not start the merge and does not return until *)
(* all W workers have finished their scans and stored their results, and   *)
(* after it returns none of its workers is running or holds a read lock.   *)
C25_Barrier == []Joined /\ [][SpawnStep /\ MergeStep /\ NoResultsBefore]_vars

\* a Search of three workers returns the rows that two of them found
C25_Witness ==
    /\ search.pc = "return" /\ search.nWorkers = 3
    /\ \A w \in DOMAIN search.workers : Finished(search.workers[w])
    /\ Len(search.workers[1].results) = 1
    /\ Len(search.workers[2].results) = 1
    /\ Len(search.res) = 2

\* a Search with k >= 1 that started on a store of at least one identifier
\* is about to return
ReturnsOnPopulated == search.pc = "return" /\ search.k >= 1 /\ watch.start >= 1

\* no error, and at least min(k, P) results of P identifiers at the start
AtLeastPopulation ==
    /\ search.err = "nil"
    /\ Len(search.res) >= Min(search.k, watch.start)
    /\ search.res # NoResults

\* C28 as it is stated: with only Inserts running concurrently, a Search
\* with k >= 1 on a store whose population was P >= 1 before the search
\* started returns no error and at least min(k, P) results, never an empty
\* result.
C28_AsStated == ReturnsOnPopulated => AtLeastPopulation

\* C28: with only Inserts running concurrently, a Search with k >= 1 and a
\* query of the store's dimension on a store whose population was P >= 1
\* before the search started returns no error and at least min(k, P)
\* results, never an empty result.
C28_SearchBesideInserts ==
    (ReturnsOnPopulated /\ Len(search.query) = dimension) => AtLeastPopulation

\* the Search started on one identifier and returns two: an Insert of the
\* writer came in between
C28_Witness ==
    /\ ReturnsOnPopulated /\ Len(search.query) = dimension
    /\ watch.start = 1 /\ search.k = 2 /\ Len(search.res) = 2
    /\ search.nWorkers = 2

\* the Search with k = 1 started on two identifiers and returns one
C28_WitnessTopOne ==
    /\ ReturnsOnPopulated /\ Len(search.query) = dimension
    /\ watch.start = 2 /\ search.k = 1 /\ Len(search.res) = 1

---------------------------------------------------------------------------
(* Claims about the calls on one shard.                                    *)

\* the rows that the sequential run leaves in shard si
SequentialRows(si) == {<<id, stored[id]>> : id \in {x \in DOMAIN stored : HashMod16[x] = si}}

\* a shard with no writer inside is as the sequential run leaves it: one
\* whole row for every identifier of the run, and nothing else
AsSequential ==
    \A si \in ShardIndices :
        ~mu[si].writer =>
            /\ Len(shards[si].data) = Len(shards[si].ids) * dimension
            /\ RowsOf(shards[si]) = SequentialRows(si)
            /\ Len(shards[si].ids) = Cardinality(SequentialRows(si))
            /\ Bijection(shards[si])

\* the lookups of Insert and of Delete find what the sequential run holds
LookupStep ==
    \A g \in Goroutines :
        (calls[g].pc = "lookup" /\ calls'[g].pc # "lookup") =>
            /\ mu[calls[g].si].writer /\ mu[calls[g].si].readers = 0
            /\ calls[g].name = "Insert" =>
                  (calls'[g].pc = "copy" <=> calls[g].v.ID \in DOMAIN stored)
            /\ calls[g].name = "Delete" =>
                  (calls'[g].err = "ErrNotFound" <=> calls[g].v.ID \notin DOMAIN stored)

\* a worker scans the rows that the sequential run holds
ScanStep ==
    \A w \in DOMAIN search.workers :
        (WorkerAt(w, "scan") /\ search'.workers[w].pc = "runlock") =>
            LET si == search.workers[w].si
            IN  /\ ~mu[si].writer
                /\ {<<row[1], EuclideanDistanceSquared(search.query, row[2])>> :
                        row \in SequentialRows(si)}
                     \subseteq {<<search'.workers[w].h[i].ID, search'.workers[w].h[i].Distance>> :
                                   i \in DOMAIN search'.workers[w].h}

\* at most one call is inside a shard, and it is a call on that shard
OneInside ==
    \A si \in ShardIndices :
        /\ Cardinality({g \in Goroutines : WriterInside(g, si)}) <= 1
        /\ mu[si].writer <=> \E g \in Goroutines : WriterInside(g, si)

(* C24: the operations on a single shard are linearizable: with Inserts,   *)
(* Deletes and worker scans running concurrently on one shard, the results *)
(* of the calls and the state of the shard are those of the same calls run *)
(* one after the other in the order in which they leave the shard's write  *)
(* lock, an instant between the start and the return of each; two          *)
(* concurrent Inserts of one identifier with different payloads leave      *)
(* exactly one row holding the whole payload of one of them.               *)
C24_ShardLinearizable == [](AsSequential /\ OneInside) /\ [][LookupStep /\ ScanStep]_vars

\* two Inserts of one identifier with different payloads have run
\* concurrently: one is returning, and the other has overwritten the row and
\* leaves one whole row
C24_Witness ==
    /\ At(1, "Insert", "return") /\ At(2, "Insert", "return")
    /\ calls[1].v.ID = IdA /\ calls[2].v.ID = IdA
    /\ calls[1].v.Data = Vec(<<1, 0>>) /\ calls[2].v.Data = Vec(<<3, 4>>)
    /\ shards[HashMod16[IdA]].ids = <<IdA>>
    /\ shards[HashMod16[IdA]].data = Vec(<<3, 4>>)
    /\ search.pc = "return" /\ Len(search.res) = 1

---------------------------------------------------------------------------
(* Claims about two Searches beside Inserts.                               *)

\* the workers of the Searches that are inside shard si
QueriesInside(si) ==
    {q \in Queriers :
        \E w \in DOMAIN queries[q].workers :
            /\ queries[q].workers[w].si = si
            /\ queries[q].workers[w].pc \in {"scan", "runlock"}}

\* every Search holds the read lock of the one shard its worker is at, and
\* no writer is inside that shard
ShardByShard ==
    \A si \in ShardIndices :
        /\ mu[si].readers = Cardinality(QueriesInside(si))
        /\ QueriesInside(si) # {} => ~mu[si].writer

\* a Search returns identifiers that are in the store, each once
ReturnsResidents ==
    \A q \in Queriers :
        queries[q].pc = "return" =>
            /\ \A i \in DOMAIN queries[q].res : ResidentIn(shards, queries[q].res[i].ID)
            /\ Cardinality(ResultIDs(queries[q].res)) = Len(queries[q].res)

(* C23: two concurrent searches may observe mutations on different shards  *)
(* in opposite orders: each takes the read lock of one shard at a time, so *)
(* there is an interleaving of two Inserts A (shard s) and B (shard t # s) *)
(* and two searches with k at least the population in which one search     *)
(* returns A but not B and the other returns B but not A.                  *)
C23_SearchesShardByShard == ShardByShard /\ ReturnsResidents

\* both Inserts are done; one Search returns the identifier of shard 7 and
\* not that of shard 12, the other that of shard 12 and not that of shard 7
C23_Witness ==
    /\ HashMod16[IdV] # HashMod16[IdA]
    /\ ResidentIn(shards, IdV) /\ ResidentIn(shards, IdA)
    /\ queries[1].pc = "return" /\ queries[2].pc = "return"
    /\ queries[1].k >= 2 /\ queries[2].k >= 2
    /\ ResultIDs(queries[1].res) = {IdV}
    /\ ResultIDs(queries[2].res) = {IdA}

---------------------------------------------------------------------------
(* Claims about the kernels of pkg/distance.                               *)

Finite(v) == \A i \in DOMAIN v : v[i] # NaN /\ ~IsInf(v[i])

\* the squared distance of a vector to itself is 0 on both paths
SelfDistanceZero ==
    (op.name = "EuclideanDistanceSquared" /\ op.a = op.b) =>
        op.scalar = 0 /\ op.platform = 0

\* the same for the vectors whose components are all finite
FiniteSelfDistanceZero ==
    (op.name = "EuclideanDistanceSquared" /\ op.a = op.b /\ Finite(op.a)) =>
        op.scalar = 0 /\ op.platform = 0

\* the dot product of two all-zero vectors is 0 on both paths
ZeroDotProduct ==
    (op.name = "DotProduct" /\ op.a = Zeros(Len(op.a)) /\ op.b = op.a) =>
        op.scalar = 0 /\ op.platform = 0

\* a Search for a stored payload reports the identifiers that hold it at
\* distance 0, at the head of the results, and all of them when k is at
\* least the population
StoredPayloadAtZero ==
    (Searched("Search") /\ \E id \in Residents : stored[id] = op.data) =>
        /\ op.res[1].Distance = 0
        /\ \A i \in DOMAIN op.res :
               stored[op.res[i].ID] = op.data => op.res[i].Distance = 0
        /\ op.k >= Population =>
               \A id \in Residents : stored[id] = op.data => id \in ResultIDs(op.res)

\* a Search for a stored payload reports every identifier that holds it, at
\* distance 0
StoredPayloadReported ==
    (Searched("Search") /\ \E id \in Residents : stored[id] = op.data) =>
        \A id \in Residents :
            stored[id] = op.data =>
                \E i \in DOMAIN op.res : op.res[i].ID = id /\ op.res[i].Distance = 0

---------------------------------------------------------------------------
(* Claims about the shards each search worker goes through.                *)

\* the values si takes in the loop "for si := start; si < end; si++" of
\* every worker w of W, whether or not they index a shard
Visits ==
    [W \in 1 .. numShards |->
        [w \in 0 .. W - 1 |-> workerStart(w, W) .. workerEnd(w, W) - 1]]

\* every shard index is visited by one worker of W and no more, no worker
\* visits an index outside 0..15, and a worker that starts at 16 or later
\* visits nothing
OneWorkerPerShard ==
    [W \in 1 .. numShards |->
        /\ \A si \in 0 .. numShards - 1 :
              Cardinality({w \in 0 .. W - 1 : si \in Visits[W][w]}) = 1
        /\ \A w \in 0 .. W - 1 : \A v \in 0 .. W - 1 :
              w # v => Visits[W][w] \cap Visits[W][v] = {}
        /\ \A w \in 0 .. W - 1 : Visits[W][w] \subseteq 0 .. numShards - 1
        /\ \A w \in 0 .. W - 1 : workerStart(w, W) >= numShards => Visits[W][w] = {}]

\* C31: for every worker count W in 1..16 (a budget above 16 is clamped to
\* 16), every shard index 0..15 is scanned by exactly one worker: the ranges
\* of the workers are pairwise disjoint and cover all shards, and a worker
\* whose start index is >= 16 scans nothing and never indexes outside the
\* shard array; so a search whose k is at least the population returns every
\* resident once.
C31_OneWorkerPerShard ==
    /\ Searched("Search") \/ Searched("SearchCosine") =>
          /\ nWorkersOf(op.procs) \in 1 .. numShards
          /\ op.procs > numShards => nWorkersOf(op.procs) = numShards
          /\ op.procs <= numShards => nWorkersOf(op.procs) = op.procs
          /\ op.k >= Population =>
                ResultIDs(op.res) = Residents /\ Len(op.res) = Population
    /\ \A W \in 1 .. numShards : SearchedBy(W) => OneWorkerPerShard[W]

\* a search by 11 workers of which the last three start at shard 16 or
\* later, that returns residents of two different shards
C31_Witness ==
    /\ SearchedBy(11)
    /\ op.procs = 11
    /\ workerStart(8, 11) >= numShards
    /\ Visits[11][8] = {} /\ Visits[11][10] = {}
    /\ \E i \in DOMAIN op.res : \E j \in DOMAIN op.res :
          shardIndex(op.res[i].ID) # shardIndex(op.res[j].ID)

---------------------------------------------------------------------------
(* Claims about the bounded heap of the workers and of the merge.          *)

\* the candidates of rows i..n-1 of a shard, in the order of the loop
RECURSIVE RowCandidates(_, _, _, _, _, _)
RowCandidates(sh, i, n, metric, query, dim) ==
    IF i >= n THEN << >>
    ELSE <<Result(sh.ids[i + 1], Dist(metric, query, Slice(sh.data, i * dim, (i + 1) * dim)))>>
         \o RowCandidates(sh, i + 1, n, metric, query, dim)

\* the candidates of shards si..end-1, in the order of the loops of a worker
RECURSIVE WorkerCandidates(_, _, _, _, _, _)
WorkerCandidates(shs, si, end, metric, query, dim) ==
    IF si >= end THEN << >>
    ELSE RowCandidates(shs[si], 0, Len(shs[si].ids), metric, query, dim)
         \o WorkerCandidates(shs, si + 1, end, metric, query, dim)

\* the candidates of the merge: the results of workers w..nWorkers-1, in order
RECURSIVE MergeCandidates(_, _, _)
MergeCandidates(wrs, w, nWorkers) ==
    IF w >= nWorkers THEN << >>
    ELSE wrs[w] \o MergeCandidates(wrs, w + 1, nWorkers)

\* the iterations of a loop that offers candidates i.. to the heap h: the
\* heap before, the candidate, the heap after
RECURSIVE OfferSteps(_, _, _, _)
OfferSteps(h, cands, i, k) ==
    IF i > Len(cands) THEN << >>
    ELSE LET after == Offer(h, cands[i], k)
         IN  <<[before |-> h, r |-> cands[i], after |-> after]>>
             \o OfferSteps(after, cands, i + 1, k)

\* the heap after the iterations
LastHeap(steps) == IF steps = << >> THEN << >> ELSE steps[Len(steps)].after

\* h has at most k entries, each no farther than its parent, so that the
\* root is the farthest
BoundedMaxHeap(h, k) ==
    /\ Len(h) <= k
    /\ \A i \in 2 .. Len(h) : h[i \div 2].Distance >= h[i].Distance
    /\ \A i \in DOMAIN h : h[1].Distance >= h[i].Distance

\* t holds the entries of s and x
WithOne(s, t, x) ==
    /\ Len(t) = Len(s) + 1
    /\ \A y \in {t[i] : i \in DOMAIN t} :
          Occurrences(t, y) = Occurrences(s, y) + (IF y = x THEN 1 ELSE 0)

\* one iteration: below k entries the candidate is added; at k entries it
\* takes the place of the root if it is strictly closer, and is dropped if not
OfferStepOK(s, k) ==
    /\ BoundedMaxHeap(s.before, k)
    /\ BoundedMaxHeap(s.after, k)
    /\ Len(s.before) < k => WithOne(s.before, s.after, s.r)
    /\ Len(s.before) = k /\ s.r.Distance < s.before[1].Distance =>
          \E rest \in {HeapPop(s.before).rest} :
              /\ WithOne(rest, s.before, s.before[1])
              /\ WithOne(rest, s.after, s.r)
    /\ Len(s.before) = k /\ ~(s.r.Distance < s.before[1].Distance) =>
          s.after = s.before

\* the iterations of worker w of the search that has returned
WorkerStepsOf(w) ==
    LET W == nWorkersOf(op.procs)
    IN  OfferSteps(<< >>,
                   WorkerCandidates(shards, workerStart(w, W), workerEnd(w, W),
                                    IF op.name = "SearchCosine" THEN "cosine" ELSE "euclidean",
                                    op.data, dimension),
                   1, op.k)

\* workerResults of the search that has returned
WorkerResultsOf ==
    [w \in 0 .. nWorkersOf(op.procs) - 1 |->
        WorkerResults(shards, w, nWorkersOf(op.procs),
                      IF op.name = "SearchCosine" THEN "cosine" ELSE "euclidean",
                      op.data, op.k, dimension)]

\* the iterations of the merge of the worker results wrs
MergeStepsOf(wrs) ==
    OfferSteps(<< >>, MergeCandidates(wrs, 0, nWorkersOf(op.procs)), 1, op.k)

\* C32: at every step of a worker scan and of the merge the bounded max-heap
\* holds at most k entries whose root is the largest retained distance; once
\* it holds k entries a candidate replaces the root only if its distance is
\* strictly smaller than the root's (an equal distance is rejected).  So
\* each worker emits at most k candidates and the merge processes at most
\* W*k <= 16*k candidates.
C32_BoundedHeap ==
    Searched("Search") \/ Searched("SearchCosine") =>
        \A W \in {nWorkersOf(op.procs)} : \A wrs \in {WorkerResultsOf} :
            /\ \A w \in 0 .. W - 1 : \A steps \in {WorkerStepsOf(w)} :
                  /\ \A i \in DOMAIN steps : OfferStepOK(steps[i], op.k)
                  /\ SameMultiset(wrs[w], LastHeap(steps))
                  /\ Len(wrs[w]) <= op.k
            /\ \A steps \in {MergeStepsOf(wrs)} :
                  /\ \A i \in DOMAIN steps : OfferStepOK(steps[i], op.k)
                  /\ Len(steps) <= W * op.k
                  /\ W * op.k <= numShards * op.k
                  /\ op.res = IF op.name = "Search" THEN ExtractSqrt(LastHeap(steps))
                              ELSE ExtractPlain(LastHeap(steps))

\* a search with k = 1 in which a worker, its heap full, has replaced the
\* root by a strictly closer candidate, and the merge, its heap full, has
\* dropped a candidate as far as its root
C32_Witness ==
    /\ Searched("Search")
    /\ op.k = 1
    /\ \E w \in 0 .. nWorkersOf(op.procs) - 1 : \E steps \in {WorkerStepsOf(w)} :
          \E i \in DOMAIN steps :
              /\ Len(steps[i].before) = 1
              /\ steps[i].r.Distance < steps[i].before[1].Distance
              /\ steps[i].after = <<steps[i].r>>
    /\ \E steps \in {MergeStepsOf(WorkerResultsOf)} : \E i \in DOMAIN steps :
          /\ Len(steps[i].before) = 1
          /\ steps[i].r.Distance = steps[i].before[1].Distance
          /\ steps[i].r.ID # steps[i].before[1].ID
          /\ steps[i].after = steps[i].before

---------------------------------------------------------------------------
(* One shard with up to four rows.  One caller inserts and deletes four    *)
(* identifiers that are routed to the same shard, and one routed to        *)
(* another.  As history, the last successful Insert or Delete on the       *)
(* shard of the four is kept with the shard as it was before the call.     *)

\* "A" and "Q": routed to the shard of "a" and "q"
IdUpperA == <<65>>
IdUpperQ == <<81>>

IDsOneShard == {IdA, IdQ, IdUpperA, IdUpperQ, IdV}

VectorsOneShard == { Vec(<<1, 0>>), Vec(<<3, 4>>), Vec(<<2>>) }

\* the shard of the four identifiers
TheShard == shardIndex(IdA)

InsertOneShard ==
    \E id \in IDsOneShard, data \in VectorsOneShard :
        op.name = "idle" /\ Insert([ID |-> id, Data |-> data]) /\ OneCaller

DeleteOneShard ==
    \E id \in IDsOneShard : op.name = "idle" /\ Delete(id) /\ OneCaller

\* history: the call that has changed the shard of the four, and the shard
\* before it; with a Delete, the Insert that has put its identifier into the
\* shard if no call has changed the shard between the two
RecordBefore ==
    /\ hist' = IF op'.err = "nil" /\ shardIndex(op'.id) = TheShard
               THEN [last |-> [name |-> op'.name, id |-> op'.id, data |-> op'.data,
                               exists |-> op'.exists, cnt |-> 0,
                               before |-> shards[TheShard]],
                     prev |-> IF /\ op'.name = "Delete"
                                 /\ hist.last.name = "Insert"
                                 /\ hist.last.id = op'.id
                                 /\ ~hist.last.exists
                              THEN hist.last ELSE NoMutation]
               ELSE hist
    /\ UNCHANGED <<stored, deleted>>

NextOneShard ==
    \/ InsertOneShard /\ RecordBefore
    \/ DeleteOneShard /\ RecordBefore
    \/ Return /\ OneCaller /\ Unrecorded

SpecOneShard == Init /\ [][NextOneShard]_vars

\* the payload of identifier id in the shard sh
PayloadOf(sh, id) ==
    Slice(sh.data, sh.idIndex[id] * dimension, (sh.idIndex[id] + 1) * dimension)

\* Delete(id) of the identifier at row i of the shard sh, whose last row is
\* L, has made the shard to
DeleteMoves(sh, to, id) ==
    LET i == sh.idIndex[id]
        L == Len(sh.ids) - 1
    IN  /\ i # L => /\ RowAt(to, i, dimension) = RowAt(sh, L, dimension)
                    /\ to.idIndex[sh.ids[L + 1]] = i
        /\ Len(to.ids) = L
        /\ Len(to.data) = L * dimension
        /\ DOMAIN to.idIndex = (DOMAIN sh.idIndex) \ {id}
        /\ \A j \in 0 .. L - 1 :
              j # i => /\ RowAt(to, j, dimension) = RowAt(sh, j, dimension)
                       /\ to.idIndex[sh.ids[j + 1]] = j
        /\ \A x \in DOMAIN to.idIndex : PayloadOf(to, x) = PayloadOf(sh, x)

\* C33: Delete(id) of the identifier at row i in a shard whose last row is
\* L: if i != L the last row's identifier and payload are moved into row i
\* and that identifier's idIndex entry becomes i; if i == L nothing is
\* moved.  In both cases the shard is truncated by one row, id is removed
\* from idIndex, and every other row keeps its index, identifier and
\* payload; every surviving identifier keeps its own payload.
C33_DeleteMoves ==
    [][(op'.name = "Delete" /\ op'.err = "nil") =>
           /\ op'.idx = shards[shardIndex(op'.id)].idIndex[op'.id]
           /\ DeleteMoves(shards[shardIndex(op'.id)], shards'[shardIndex(op'.id)], op'.id)
           /\ \A si \in ShardIndices \ {shardIndex(op'.id)} : shards'[si] = shards[si]]_vars

\* the identifier at row 1 of four rows has been deleted: the last row has
\* moved into row 1, rows 0 and 2 are as they were
C33_Witness ==
    /\ op.name = "Delete" /\ op.err = "nil" /\ op.idx = 1
    /\ hist.last.name = "Delete" /\ hist.last.id = op.id
    /\ Len(hist.last.before.ids) = 4
    /\ Len(shards[TheShard].ids) = 3
    /\ shards[TheShard].ids[2] = hist.last.before.ids[4]
    /\ RowAt(shards[TheShard], 1, dimension) # RowAt(hist.last.before, 1, dimension)
    /\ RowAt(shards[TheShard], 1, dimension) = RowAt(hist.last.before, 3, dimension)
    /\ RowAt(shards[TheShard], 0, dimension) # RowAt(shards[TheShard], 2, dimension)

\* the identifier at the last of three rows has been deleted: nothing has moved
C33_WitnessLast ==
    /\ op.name = "Delete" /\ op.err = "nil" /\ op.idx = 2
    /\ hist.last.name = "Delete" /\ hist.last.id = op.id
    /\ Len(hist.last.before.ids) = 3
    /\ shards[TheShard].ids = SubSeq(hist.last.before.ids, 1, 2)

\* the last call that has changed the shard of the four is a Delete, and the
\* one before it the Insert that has put the identifier there
InsertedThenDeletedInShard ==
    hist.last.name = "Delete" /\ hist.prev.name = "Insert"

\* C39: inserting an identifier that is not resident and then deleting it,
\* with no other operation on that shard in between, restores the shard's
\* ids, data contents and idIndex exactly, including the row order of all
\* other identifiers (the new row is appended last, so the delete only
\* truncates).
C39_InsertThenDelete ==
    InsertedThenDeletedInShard =>
        /\ hist.prev.id = hist.last.id
        /\ hist.prev.id \notin DOMAIN hist.prev.before.idIndex
        /\ hist.last.before.ids = Append(hist.prev.before.ids, hist.prev.id)
        /\ hist.last.before.data = hist.prev.before.data \o hist.prev.data
        /\ hist.last.before.idIndex[hist.last.id] = Len(hist.last.before.ids) - 1
        /\ shards[TheShard].ids = hist.prev.before.ids
        /\ shards[TheShard].data = hist.prev.before.data
        /\ shards[TheShard].idIndex = hist.prev.before.idIndex
        /\ shards[TheShard] = hist.prev.before

\* an identifier has been inserted into a shard of three rows and deleted
\* again, while another shard holds a row: the three rows are back
C39_Witness ==
    /\ InsertedThenDeletedInShard
    /\ op.name = "Delete" /\ op.err = "nil" /\ op.id = hist.last.id
    /\ Len(hist.prev.before.ids) = 3
    /\ Len(hist.last.before.ids) = 4
    /\ Len(shards[TheShard].ids) = 3
    /\ Len(shards[shardIndex(IdV)].ids) = 1

---------------------------------------------------------------------------
(* SearchCosine over zero vectors.  One caller inserts the zero vector,    *)
(* [1, 0], [-1, 0] and [2^-FracBits, 4], whose first component is the      *)
(* smallest positive number, and searches by cosine.                       *)

VectorsCosine == { Vec(<<0, 0>>), Vec(<<1, 0>>), Vec(<<-1, 0>>), <<1, F(4)>> }

NextCosine ==
    \/ InsertCall(VectorsCosine) /\ Remember /\ RecordNothing
    \/ DeleteCall /\ Remember /\ RecordNothing
    \/ SearchCosineCall(VectorsCosine, ProcsRecorded) /\ Unrecorded
    \/ Return /\ OneCaller /\ Unrecorded

SpecCosine == Init /\ [][NextCosine]_vars

\* the payload of result i of the call
PayloadOfResult(i) == stored[op.res[i].ID]

\* the query or the payload has zero magnitude: the results at distance 1
ZeroMagnitudeAtOne ==
    /\ \A i \in DOMAIN op.res :
          (Magnitude(op.data) = 0 \/ Magnitude(PayloadOfResult(i)) = 0) =>
              /\ CosineSimilarity(op.data, PayloadOfResult(i)) = 0
              /\ op.res[i].Distance = F(1)
    /\ Magnitude(op.data) = 0 => \A i \in DOMAIN op.res : op.res[i].Distance = F(1)

\* the sign of the cosine of the angle between a and b, both of non-zero
\* magnitude: that of their dot product
SimilaritySign(a, b) ==
    IF Magnitude(a) = 0 \/ Magnitude(b) = 0 THEN 0
    ELSE IF DotProduct(a, b) > 0 THEN 1
    ELSE IF DotProduct(a, b) < 0 THEN -1 ELSE 0

\* C37 as it is stated: whenever the query or a stored payload has zero
\* magnitude, cosine similarity is defined as 0 and the reported distance
\* for that vector is exactly 1: a zero query gives every result distance 1,
\* and a stored zero vector ranks after every vector with positive
\* similarity to the query and before every vector with negative similarity.
C37_AsStated ==
    Searched("SearchCosine") =>
        /\ ZeroMagnitudeAtOne
        /\ \A i \in DOMAIN op.res : \A j \in DOMAIN op.res :
              Magnitude(PayloadOfResult(i)) = 0 =>
                  /\ SimilaritySign(op.data, PayloadOfResult(j)) = 1 => j < i
                  /\ SimilaritySign(op.data, PayloadOfResult(j)) = -1 => i < j

\* C37: whenever the query or a stored payload has zero magnitude, cosine
\* similarity is defined as 0 and the reported distance for that vector is
\* exactly 1: a zero query gives every result distance 1, and a stored zero
\* vector ranks after every vector whose reported distance is below 1 and
\* before every vector whose reported distance is above 1; a vector whose
\* similarity is too small to make 1 - similarity differ from 1 is reported
\* at 1 as well and ranks on either side.
C37_ZeroAtOne ==
    Searched("SearchCosine") =>
        /\ ZeroMagnitudeAtOne
        /\ \A i \in DOMAIN op.res : \A j \in DOMAIN op.res :
              Magnitude(PayloadOfResult(i)) = 0 =>
                  /\ op.res[j].Distance < F(1) => j < i
                  /\ op.res[j].Distance > F(1) => i < j
        /\ \A i \in DOMAIN op.res :
              /\ op.res[i].Distance < F(1) => SimilaritySign(op.data, PayloadOfResult(i)) = 1
              /\ op.res[i].Distance > F(1) => SimilaritySign(op.data, PayloadOfResult(i)) = -1

\* the zero vector between [1, 0] and [-1, 0] for the query [1, 0]
C37_Witness ==
    /\ Searched("SearchCosine")
    /\ op.data = Vec(<<1, 0>>)
    /\ Len(op.res) = 3
    /\ PayloadOfResult(1) = Vec(<<1, 0>>) /\ op.res[1].Distance = 0
    /\ PayloadOfResult(2) = Vec(<<0, 0>>) /\ op.res[2].Distance = F(1)
    /\ PayloadOfResult(3) = Vec(<<-1, 0>>) /\ op.res[3].Distance = F(2)

\* every result of a search with the zero query is at distance 1
C37_WitnessZeroQuery ==
    /\ Searched("SearchCosine")
    /\ op.data = Vec(<<0, 0>>)
    /\ Len(op.res) = 3
    /\ \A i \in DOMAIN op.res : op.res[i].Distance = F(1)

---------------------------------------------------------------------------
(* The five calls together.  One goroutine calls Insert and Delete with    *)
(* one identifier and with the empty one, a second one calls Count, and a  *)
(* Search or a SearchCosine runs beside them, with queries of both lengths *)
(* and with k = 0.                                                         *)

IDsCalls == {IdA, EmptyID}

GoInsertCalls(g) == GoInsertOf(g, IDsCalls, VectorsConcurrent)

GoDeleteCalls(g) == GoDeleteOf(g, IDsCalls)

NextCalls ==
    \/ \E g \in Writers : GoInsertCalls(g) /\ BesideSearch
    \/ \E g \in Writers : GoInsertLock(g) /\ BesideSearch
    \/ \E g \in Writers : GoInsertLookup(g) /\ BesideSearch
    \/ \E g \in Writers : GoInsertCopy(g) /\ BesideSearch
    \/ \E g \in Writers : GoInsertIndex(g) /\ BesideSearch
    \/ \E g \in Writers : GoInsertIds(g) /\ BesideSearch
    \/ \E g \in Writers : GoInsertData(g) /\ BesideSearch
    \/ \E g \in Writers : GoDeleteCalls(g) /\ BesideSearch
    \/ \E g \in Writers : GoDeleteLock(g) /\ BesideSearch
    \/ \E g \in Writers : GoDeleteLookup(g) /\ BesideSearch
    \/ \E g \in Writers : GoDeleteTruncIds(g) /\ BesideSearch
    \/ \E g \in Writers : GoDeleteTruncData(g) /\ BesideSearch
    \/ \E g \in Writers : GoDeleteIndex(g) /\ BesideSearch
    \/ \E g \in Writers : GoUnlock(g) /\ BesideSearch
    \/ \E g \in Counters : GoCount(g) /\ BesideSearch
    \/ \E g \in Counters : GoCountRLock(g) /\ BesideSearch
    \/ \E g \in Counters : GoCountRead(g) /\ BesideSearch
    \/ \E g \in Counters : GoCountRUnlock(g) /\ BesideSearch
    \/ \E g \in Goroutines : GoReturn(g) /\ BesideSearch
    \/ SearchBegin /\ OfSearch
    \/ SearchCosineBegin /\ OfSearch
    \/ \E w \in DOMAIN search.workers : WorkerRLock(w) /\ OfSearch
    \/ \E w \in DOMAIN search.workers : WorkerScan(w) /\ OfSearch
    \/ \E w \in DOMAIN search.workers : WorkerRUnlock(w) /\ OfSearch
    \/ \E w \in DOMAIN search.workers : WorkerDrain(w) /\ OfSearch
    \/ SearchMerge /\ OfSearch
    \/ SearchReturn /\ OfSearch

SpecCalls == Init /\ [][NextCalls]_vars

\* the lock of every shard is held by the calls that are between taking it
\* and releasing it, and by nobody else
LocksOfCallsInside ==
    \A si \in ShardIndices :
        /\ mu[si].writer <=> WritersInside(si) # {}
        /\ mu[si].readers = Cardinality(CountersInside(si)) + Cardinality(WorkersInside(si))

\* a call that has returned is inside no shard
ReturnedOutside ==
    /\ \A g \in Goroutines :
          calls[g].pc = "return" =>
              \A si \in ShardIndices : g \notin WritersInside(si) \cup CountersInside(si)
    /\ search.pc = "return" =>
          /\ \A si \in ShardIndices : WorkersInside(si) = {}
          /\ \A w \in DOMAIN search.workers : search.workers[w].held = {}

\* no call is running
NoCallRunning ==
    /\ \A g \in Goroutines : calls[g].pc \in {"idle", "return"}
    /\ search.pc \in {"idle", "return"}

\* C35: whenever an Insert, Delete, Count, Search or SearchCosine call has
\* returned, on any path (success, upsert early return, NotFound, EmptyID,
\* DimensionMismatch, k <= 0), it holds no shard lock: every lock
\* acquisition is matched by exactly one release, so in a quiescent store
\* all 16 locks are free.
C35_NoLockAfterReturn ==
    /\ LocksOfCallsInside
    /\ ReturnedOutside
    /\ NoCallRunning => \A si \in ShardIndices : mu[si] = Unlocked

\* a Delete has returned ErrNotFound, a Count has returned and a
\* SearchCosine with k = 0 has returned: all 16 locks are free
C35_Witness ==
    /\ \E g \in Writers : At(g, "Delete", "return") /\ calls[g].err = "ErrNotFound"
    /\ \E g \in Counters : At(g, "Count", "return")
    /\ search.pc = "return" /\ search.name = "SearchCosine"
    /\ search.k = 0 /\ search.err = "nil"
    /\ \A si \in ShardIndices : mu[si] = Unlocked

\* an upsert has returned while a Search holds a read lock
C35_WitnessUpsert ==
    /\ \E g \in Writers :
          /\ At(g, "Insert", "return") /\ calls[g].err = "nil"
          /\ Len(shards[calls[g].si].ids) = 1
          /\ ~mu[calls[g].si].writer
    /\ \E si \in ShardIndices : mu[si].readers = 1 /\ WorkersInside(si) # {}

---------------------------------------------------------------------------
(* A search beside deletes and re-inserts.  One goroutine calls Insert and *)
(* Delete with two identifiers of two shards while a Search or a           *)
(* SearchCosine of two workers runs; when no call is running, a search     *)
(* runs from its call to its return under every value of GOMAXPROCS.  As   *)
(* history, "deleted" holds the identifiers deleted since the running      *)
(* search started, and "watch.held" those of them inserted again since.    *)

ProcsReinsert == {2}

KsReinsert == {2}

GoInsertReinsert(g) == op.name = "idle" /\ GoInsertShared(g)

GoDeleteReinsert(g) == op.name = "idle" /\ GoDeleteShared(g)

SearchBeginReinsert ==
    \E name \in {"Search", "SearchCosine"}, query \in QueriesShared,
       k \in KsReinsert, procs \in ProcsReinsert :
        /\ op.name = "idle"
        /\ Begin(name, query, k, procs)
        /\ deleted' = {}
        /\ watch' = NoWatch
        /\ UNCHANGED <<dimension, op, stored, hist, batch, queries>>

\* history: the call of goroutine g has deleted its identifier, or inserted
\* it again, while the search runs
DeletedOrReinserted(g) ==
    /\ deleted' = IF search.pc = "wait" /\ calls[g].name = "Delete" /\ calls[g].err = "nil"
                  THEN deleted \cup {calls[g].v.ID} ELSE deleted
    /\ watch' = IF search.pc = "wait" /\ calls[g].name = "Insert"
                       /\ calls[g].v.ID \in deleted
                THEN [watch EXCEPT !.held = @ \cup {calls[g].v.ID}] ELSE watch
    /\ UNCHANGED <<dimension, op, stored, hist, search, batch, queries>>

\* no goroutine and no search is running
NothingRunning == Quiescent /\ search.pc = "idle"

NextReinsert ==
    \/ \E g \in Writers : GoInsertReinsert(g) /\ BesideSearch
    \/ \E g \in Writers : GoInsertLock(g) /\ BesideSearch
    \/ \E g \in Writers : GoInsertLookup(g) /\ BesideSearch
    \/ \E g \in Writers : GoInsertCopy(g) /\ BesideSearch
    \/ \E g \in Writers : GoInsertIndex(g) /\ BesideSearch
    \/ \E g \in Writers : GoInsertIds(g) /\ BesideSearch
    \/ \E g \in Writers : GoInsertData(g) /\ BesideSearch
    \/ \E g \in Writers : GoDeleteReinsert(g) /\ BesideSearch
    \/ \E g \in Writers : GoDeleteLock(g) /\ BesideSearch
    \/ \E g \in Writers : GoDeleteLookup(g) /\ BesideSearch
    \/ \E g \in Writers : GoDeleteTruncIds(g) /\ BesideSearch
    \/ \E g \in Writers : GoDeleteTruncData(g) /\ BesideSearch
    \/ \E g \in Writers : GoDeleteIndex(g) /\ BesideSearch
    \/ \E g \in Writers : GoUnlock(g) /\ DeletedOrReinserted(g)
    \/ \E g \in Writers : GoReturn(g) /\ BesideSearch
    \/ SearchBeginReinsert
    \/ \E w \in DOMAIN search.workers : WorkerRLock(w) /\ OfSearch
    \/ \E w \in DOMAIN search.workers : WorkerScan(w) /\ OfSearch
    \/ \E w \in DOMAIN search.workers : WorkerRUnlock(w) /\ OfSearch
    \/ \E w \in DOMAIN search.workers : WorkerDrain(w) /\ OfSearch
    \/ SearchMerge /\ OfSearch
    \/ SearchReturn /\ OfSearch
    \/ NothingRunning /\ SearchCall(VectorsShared, Procs) /\ Unrecorded
    \/ NothingRunning /\ SearchCosineCall(VectorsShared, Procs) /\ Unrecorded
    \/ Return /\ OneCaller /\ Unrecorded

SpecReinsert == Init /\ [][NextReinsert]_vars

\* no identifier twice in res
DistinctIDs(res) == Cardinality(ResultIDs(res)) = Len(res)

\* C38: no single Search or SearchCosine result contains the same
\* identifier twice, for every W in 1..16 and under every interleaving with
\* concurrent inserts, upserts and deletes, including a delete followed by
\* a re-insert of the same identifier while the search is running: the
\* shards left to one worker are left to no other, and no two workers find
\* the same identifier.
C38_NoDuplicateResults ==
    /\ search.pc = "return" => DistinctIDs(search.res)
    /\ \A w \in DOMAIN search.workers :
          /\ DistinctIDs(search.workers[w].results)
          /\ \A v \in DOMAIN search.workers :
                v # w => /\ ResultIDs(search.workers[w].results)
                                \cap ResultIDs(search.workers[v].results) = {}
                         /\ (search.workers[w].si .. search.workers[w].end - 1)
                                \cap (search.workers[v].si .. search.workers[v].end - 1) = {}
    /\ op.name \in {"Search", "SearchCosine"} =>
          /\ nWorkersOf(op.procs) \in 1 .. numShards
          /\ DistinctIDs(op.res)

\* a search of two workers has returned two identifiers, one of them
\* deleted and inserted again while the search was running
C38_Witness ==
    /\ search.pc = "return"
    /\ Len(search.res) = 2
    /\ DistinctIDs(search.res)
    /\ \E id \in watch.held : id \in deleted /\ id \in ResultIDs(search.res)

\* a search under GOMAXPROCS = 16 has returned two identifiers
C38_WitnessSixteen ==
    /\ op.name = "SearchCosine" /\ op.procs = numShards
    /\ Len(op.res) = 2

---------------------------------------------------------------------------
(* Claims about the elements the NEON kernels go through.                  *)

\* v with every element but the one at index i (from 0) replaced by zero
OnlyAt(v, i) == [j \in DOMAIN v |-> IF j = i + 1 THEN v[j] ELSE 0]

\* the registers after the rounds of loop16 and after those of loop4, for
\* the operands of the call
AfterLoop16 ==
    IF op.name = "DotProduct" THEN dotLoop16(op.a, op.b, NeonStart(op.a))
    ELSE eucLoop16(op.a, op.b, NeonStart(op.a))

AfterLoop4 ==
    IF op.name = "DotProduct" THEN dotLoop4(op.a, op.b, AfterLoop16)
    ELSE eucLoop4(op.a, op.b, AfterLoop16)

\* loop16 takes 16 elements a round while 16 are left, loop4 then 4 a round
\* while 4 are left, and 0 to 3 are left to the scalar tail
SixteensFoursRest ==
    LET n == Len(op.a)
    IN  /\ AfterLoop16.i = 16 * (n \div 16)
        /\ AfterLoop16.i + AfterLoop16.r1 = n
        /\ AfterLoop16.r1 < 16
        /\ AfterLoop4.i = 4 * (n \div 4)
        /\ AfterLoop4.i + AfterLoop4.r1 = n
        /\ AfterLoop4.r1 \in 0 .. 3
        /\ AfterLoop4.acc[1] = AfterLoop16.acc[1]
        /\ AfterLoop4.acc[2] = AfterLoop16.acc[2]
        /\ AfterLoop4.acc[3] = AfterLoop16.acc[3]

\* the kernel takes the element at every index once, with the element of
\* the other operand at the same index: with all other elements zero, its
\* result is the term of that index
EachIndexOnce ==
    \A i \in 0 .. Len(op.a) - 1 :
        IF op.name = "DotProduct"
        THEN /\ dotProductNEON(OnlyAt(op.a, i), op.b) = FMul(op.a[i + 1], op.b[i + 1])
             /\ dotProductNEON(op.a, OnlyAt(op.b, i)) = FMul(op.a[i + 1], op.b[i + 1])
        ELSE euclideanDistanceSquaredNEON(OnlyAt(op.a, i), OnlyAt(op.b, i)) =
                 FMul(FSub(op.a[i + 1], op.b[i + 1]), FSub(op.a[i + 1], op.b[i + 1]))

\* a kernel has returned
KernelCalled == op.name \in {"DotProduct", "EuclideanDistanceSquared"}

\* C36: for every operand length n >= 4, the SIMD kernels for dot product
\* and squared Euclidean consume each index 0..n-1 exactly once: 16 per bulk
\* iteration while at least 16 remain, then 4 per tail iteration while at
\* least 4 remain, then the remaining 0..3 in the scalar epilogue after the
\* four accumulators are reduced; in exact arithmetic their result
\* therefore equals the scalar loop's sum, and for n < 4 (or on a non-arm64
\* build) the scalar loop itself is used.
C36_EachIndexOnce ==
    KernelCalled =>
        /\ (Len(op.a) >= 4 /\ Finite(op.a) /\ Finite(op.b)) =>
              /\ SixteensFoursRest
              /\ EachIndexOnce
              /\ op.platform = op.scalar
              /\ op.platform = IF op.name = "DotProduct" THEN dotProductNEON(op.a, op.b)
                               ELSE euclideanDistanceSquaredNEON(op.a, op.b)
        /\ Len(op.a) < 4 =>
              op.platform = IF op.name = "DotProduct" THEN DotProductScalar(op.a, op.b)
                            ELSE EuclideanDistanceSquaredScalar(op.a, op.b)
        /\ dotProductPlatform(op.a, op.b) = DotProductScalar(op.a, op.b)
        /\ euclideanDistanceSquaredPlatform(op.a, op.b) =
               EuclideanDistanceSquaredScalar(op.a, op.b)

\* the dot product of two vectors of 39 halves: two rounds of loop16, one of
\* loop4 and a tail of three, the sum that of the scalar loop
C36_Witness ==
    /\ op.name = "DotProduct"
    /\ Len(op.a) = 39 /\ op.a = Halves(39) /\ op.b = Halves(39)
    /\ AfterLoop16.i = 32 /\ AfterLoop4.i = 36 /\ AfterLoop4.r1 = 3
    /\ op.platform = op.scalar /\ op.platform > 0
    /\ \A i \in 0 .. 38 : dotProductNEON(OnlyAt(op.a, i), op.b) > 0

---------------------------------------------------------------------------
(* The calls under a fair scheduler.  sync.RWMutex as the Go runtime has   *)
(* it: a writer that calls Lock announces itself and then waits for the    *)
(* readers that hold the lock; from the announcement on, RLock blocks, and *)
(* the readers blocked are admitted together when the writer unlocks.  One *)
(* goroutine calls Insert, Delete and Count, one call after the other, and *)
(* a Search or a SearchCosine of one worker runs beside it.                *)

\* a writer has announced itself at the lock of shard si
WriterWaiting(si) ==
    \E g \in Goroutines : calls[g].pc = "wait" /\ calls[g].si = si

\* readers admitted while a writer waits
CanRLockPastWaiting(si) == ~mu[si].writer

\* RLock returns at once: no writer holds the lock and none waits for it
CanRLockBehind(si) == ~mu[si].writer /\ ~WriterWaiting(si)

GoInsertFair(g) == GoInsertOf(g, IDsLinear, VectorsShared)

GoDeleteFair(g) == GoDeleteOf(g, IDsLinear)

SearchBeginFair ==
    \E name \in {"Search", "SearchCosine"}, query \in QueriesShared, k \in KsSearching :
        Begin(name, query, k, 1)

\* sh.mu.Lock(), first half: the writer announces itself
GoLockAnnounce(g) ==
    /\ calls[g].name \in {"Insert", "Delete"}
    /\ calls[g].pc = "lock"
    /\ Goto(g, "wait")
    /\ UNCHANGED <<shards, mu>>

\* sh.mu.Lock(), second half: the readers have left
GoLockEnter(g) ==
    /\ calls[g].name \in {"Insert", "Delete"}
    /\ calls[g].pc = "wait"
    /\ mu[calls[g].si].readers = 0
    /\ ~mu[calls[g].si].writer
    /\ mu' = [mu EXCEPT ![calls[g].si].writer = TRUE]
    /\ Goto(g, "lookup")
    /\ UNCHANGED shards

\* the goroutines and the workers blocked in RLock of shard si
CountersBlocked(si) ==
    {g \in Goroutines : At(g, "Count", "rblocked") /\ calls[g].si = si}

WorkersBlocked(si) ==
    {w \in DOMAIN search.workers :
        search.pc = "wait" /\ search.workers[w].pc = "rblocked" /\ search.workers[w].si = si}

\* defer sh.mu.Unlock(): the readers blocked in RLock are admitted
GoUnlockFair(g) ==
    /\ calls[g].name \in {"Insert", "Delete"}
    /\ calls[g].pc = "unlock"
    /\ LET si == calls[g].si
       IN  /\ mu' = [mu EXCEPT ![si] =
                        [writer |-> FALSE,
                         readers |-> Cardinality(CountersBlocked(si))
                                         + Cardinality(WorkersBlocked(si))]]
           /\ calls' = [h \in Goroutines |->
                           IF h = g THEN [calls[h] EXCEPT !.pc = "return"]
                           ELSE IF h \in CountersBlocked(si)
                           THEN [calls[h] EXCEPT !.pc = "read"]
                           ELSE calls[h]]
           /\ search' = IF WorkersBlocked(si) = {} THEN search
                        ELSE [search EXCEPT
                                 !.workers = [w \in DOMAIN search.workers |->
                                     IF w \in WorkersBlocked(si)
                                     THEN [search.workers[w] EXCEPT
                                              !.pc = "scan", !.held = @ \cup {si}]
                                     ELSE search.workers[w]],
                                 !.seen = @ \cup RowsOf(shards[si]),
                                 !.rlocks[si] = @ + Cardinality(WorkersBlocked(si))]
    /\ UNCHANGED shards

\* s.shards[i].mu.RLock() of Count: at once, or blocked behind a writer
GoCountRLockFair(g) ==
    /\ At(g, "Count", "rlock")
    /\ IF CanRLockBehind(calls[g].si)
       THEN /\ mu' = [mu EXCEPT ![calls[g].si].readers = @ + 1]
            /\ Goto(g, "read")
       ELSE /\ Goto(g, "rblocked")
            /\ UNCHANGED mu
    /\ UNCHANGED shards

\* sh.mu.RLock() of a worker: at once, or blocked behind a writer
WorkerRLockFair(w) ==
    /\ WorkerAt(w, "rlock")
    /\ LET si == search.workers[w].si
       IN  IF CanRLockBehind(si)
           THEN /\ mu' = [mu EXCEPT ![si].readers = @ + 1]
                /\ search' = [search EXCEPT !.workers[w].pc = "scan",
                                            !.workers[w].held = @ \cup {si},
                                            !.seen = @ \cup RowsOf(shards[si]),
                                            !.rlocks[si] = @ + 1]
           ELSE /\ search' = [search EXCEPT !.workers[w].pc = "rblocked"]
                /\ UNCHANGED mu
    /\ UNCHANGED <<shards, calls>>

\* a step of the writer inside a call
WriterRun ==
    \E g \in Writers :
        \/ GoLockAnnounce(g) /\ BesideSearch
        \/ GoLockEnter(g) /\ BesideSearch
        \/ GoInsertLookup(g) /\ BesideSearch
        \/ GoInsertCopy(g) /\ BesideSearch
        \/ GoInsertIndex(g) /\ BesideSearch
        \/ GoInsertIds(g) /\ BesideSearch
        \/ GoInsertData(g) /\ BesideSearch
        \/ GoDeleteLookup(g) /\ BesideSearch
        \/ GoDeleteTruncIds(g) /\ BesideSearch
        \/ GoDeleteTruncData(g) /\ BesideSearch
        \/ GoDeleteIndex(g) /\ BesideSearch
        \/ GoUnlockFair(g) /\ OfSearch

\* a step of Count
CounterRun ==
    \E g \in Writers :
        \/ GoCountRLockFair(g) /\ BesideSearch
        \/ GoCountRead(g) /\ BesideSearch
        \/ GoCountRUnlock(g) /\ BesideSearch

\* a step of the search that is running
SearchRun ==
    \/ \E w \in DOMAIN search.workers : WorkerRLockFair(w) /\ OfSearch
    \/ \E w \in DOMAIN search.workers : WorkerScan(w) /\ OfSearch
    \/ \E w \in DOMAIN search.workers : WorkerRUnlock(w) /\ OfSearch
    \/ \E w \in DOMAIN search.workers : WorkerDrain(w) /\ OfSearch
    \/ SearchMerge /\ OfSearch

NextFair ==
    \/ \E g \in Writers : GoInsertFair(g) /\ BesideSearch
    \/ \E g \in Writers : GoDeleteFair(g) /\ BesideSearch
    \/ \E g \in Writers : GoCount(g) /\ BesideSearch
    \/ SearchBeginFair /\ OfSearch
    \/ WriterRun
    \/ CounterRun
    \/ SearchRun
    \/ \E g \in Writers : GoReturn(g) /\ BesideSearch
    \/ SearchReturn /\ OfSearch

SpecLocks == Init /\ [][NextFair]_vars

\* the scheduler lets every goroutine that can run take its next step
SpecFair ==
    SpecLocks /\ WF_vars(WriterRun) /\ WF_vars(CounterRun) /\ WF_vars(SearchRun)

\* the shard locks a goroutine holds
LocksOfCaller(g) ==
    {si \in ShardIndices :
        \/ WriterInside(g, si) /\ calls[g].pc # "wait"
        \/ calls[g].name = "Count" /\ calls[g].si = si /\ calls[g].pc \in {"read", "runlock"}}

OneLockEach ==
    /\ \A g \in Writers : Cardinality(LocksOfCaller(g)) <= 1
    /\ \A w \in DOMAIN search.workers : Cardinality(search.workers[w].held) <= 1

\* a call has started and has not returned
CallRunning(g) == calls[g].pc \notin {"idle", "return"}

SearchRunning == search.pc \in {"wait", "merge"}

\* whenever a call is running, some running call can take a step
NoDeadlock ==
    ((\E g \in Writers : CallRunning(g)) \/ SearchRunning)
        => ENABLED (WriterRun \/ CounterRun \/ SearchRun)

\* a scan passes over the rows the shard had when the lock was taken, and
\* over no more: the heap grows by at most that many candidates
ScanBounded ==
    [][\A w \in DOMAIN search.workers :
          (WorkerAt(w, "scan") /\ search'.pc = "wait" /\ search'.workers[w].pc = "runlock")
              => /\ Len(search'.workers[w].h)
                        <= Len(search.workers[w].h) + Len(shards[search.workers[w].si].ids)
                 /\ shards' = shards]_vars

C34_WitnessBlocked ==
    \E g \in Writers, w \in DOMAIN search.workers :
        /\ WriterInside(g, calls[g].si)
        /\ calls[g].pc \notin {"wait", "unlock"}
        /\ WorkerAt(w, "rblocked")
        /\ search.workers[w].si = calls[g].si

\* Count and the worker of a search hold the read lock of one shard
C34_WitnessTwoReaders ==
    \E g \in Writers, w \in DOMAIN search.workers :
        /\ At(g, "Count", "read")
        /\ WorkerAt(w, "scan")
        /\ search.workers[w].si = calls[g].si
        /\ mu[calls[g].si].readers = 2

=============================================================================
